---- MODULE Spec2Model ----
(***************************************************************************)
(* Decision & risk engine of the Binance spot trading bot.                 *)
(*                                                                         *)
(* Units.  Python floats are modelled by exact scaled integers:            *)
(*   prices            whole quote units (USDT)                            *)
(*   quantities        1/QtyScale of a coin                                *)
(*   money             1/MoneyScale of a USDT                              *)
(*   stop/target level price * PriceScale                                  *)
(*   spreads           1/1000 (fraction * 1000)                            *)
(*   percentages named *_x10 are tenths of a percent (15 = 1.5 %)          *)
(*   bb_width, volume_ratio are tenths (8 = 0.8)                           *)
(*   time              seconds                                             *)
(***************************************************************************)
EXTENDS Integers, Sequences, FiniteSets, TLC

\* ------------------------------------------------------------------ bounds
MaxOrders == 2          \* orders the exchange accepts in one run
MaxTicks == 2           \* clock ticks of TickSeconds the clock may advance
MaxDataTicks == 3       \* half candle periods that pass during a parameter sweep
MaxStatTrades == 3      \* trade results reported to the risk manager

\* --------------------------------------------------------- scales and time
QtyScale == 100
MoneyScale == 1000000
PriceScale == 1000
DaySeconds == 86400

\* ------------------------------------------------------------ configuration
trading_pairs == <<"BTCUSDT", "ETHUSDT">>
Symbols == {trading_pairs[i] : i \in 1..Len(trading_pairs)}

\* Python's None / falsy results
NoPrice == 0
NoOrderId == 0
NoOrder == [orderId |-> NoOrderId]

\* config['strategy'] and config['risk'] (config_loader.DEFAULT_CONFIG)
rsi_oversold == 32
rsi_overbought == 68
min_volume_ratio == 5
min_bb_width == 8
strategy_max_spread == 100
cooldown_seconds == 300
TickSeconds == cooldown_seconds    \* one clock tick is one cooldown period
position_size_pct == 15
position_size_min == 15
position_size_max == 40
max_positions == 2
stop_loss_pct_x10 == 15
take_profit_pct_x10 == 25
daily_loss_limit == 15
max_consecutive_losses == 3
min_order_size == 10
total_cost_pct_x100 == 25
total_capital == 200
trading_capital_pct == 75
QuickExitPct == 1
QuickExitSeconds == 900
DefaultSpread == 100
StatsStartBalance == 200

\* config['data']['candle_interval'] ('5m') in seconds, and the age in
\* seconds after which DataManager refreshes a symbol's buffer
CandleSeconds == 300
UpdateAfterSeconds == 60

\* candles of one download (limit 1000) and of one refresh (limit 100), and
\* the fewest candles run_backtest accepts (100), at the scale of the model
DownloadLimit == 3
UpdateLimit == 2
BacktestLimit == DownloadLimit
MinBacktestCandles == 3

\* risk.max_spread_pct in tenths of a percent: the shipped 0.3 % and a
\* permissive 15 %.  It is the one configuration value the runs differ in.
MaxSpreadPcts == {3, 150}

\* strategy.bb_squeeze_threshold in tenths: the shipped 0.8, which equals
\* min_bb_width and admits no entry, and the 5.0 of the documented example.
SqueezeThresholds == {8, 50}

\* exchange constraints of a symbol (LOT_SIZE / MIN_NOTIONAL filters)
SymbolConstraints ==
    [s \in Symbols |->
        IF s = "BTCUSDT"
        THEN [min_qty |-> 1, max_qty |-> 1000, step_size |-> 1, min_notional |-> 10]
        ELSE [min_qty |-> 2, max_qty |-> 1000, step_size |-> 2, min_notional |-> 16]]

\* prices the market data and the fills can show: with an entry at 200 the
\* stop is 197 and the target 205; 200 is +2.04 % on an entry at 196
Prices == {196, 200, 206}

Max(a, b) == IF a >= b THEN a ELSE b
Min(a, b) == IF a <= b THEN a ELSE b

\* ------------------------------------------------------------------- state
VARIABLES
    running,             \* TradingBot.running
    paused,              \* TradingBot.paused
    positions,           \* TradingBot.positions: dict symbol -> position
    last_trades,         \* TradingBot.last_trades: dict symbol -> timestamp
    consecutive_losses,  \* TradingBot.consecutive_losses
    daily_pnl,           \* TradingBot.daily_pnl (money)
    daily_trades,        \* TradingBot.daily_trades
    symbol_info,         \* OrderExecutor.symbol_info: the symbols it holds
    daily_stats,         \* RiskManager.daily_stats
    max_spread_pct,      \* config['risk']['max_spread_pct'] (tenths of a percent)
    bb_squeeze_threshold, \* config['strategy']['bb_squeeze_threshold'] (tenths)
    journal,             \* rows of the trades table, in insertion order
    orders,              \* number of orders the exchange accepted (last orderId)
    last_order,          \* the order the exchange accepted last
    client_open,         \* BinanceClient not yet closed
    db_open,             \* DatabaseHandler connection not yet closed
    phase,               \* life cycle of the TradingBot object
    cycle,               \* 0: no cycle in progress; i: trading_pairs[i] is next
    shutdown_todo,       \* symbols TradingBot.shutdown has still to close
    trading_paused,      \* Dashboard.trading_paused
    now,                 \* wall clock (seconds)
    breaker_ok,          \* result of the last check_circuit_breakers call
    last,                \* what the bot's last step did (observation only)
    fn_in,               \* arguments of a function evaluated on its own
    fn_out,              \* its result, once evaluated
    candles_buffer,      \* DataManager.candles_buffer: symbol -> candle series
    last_update,         \* DataManager.last_update: symbol -> time of last fetch
    in_call,             \* per task: the _close_position call suspended at its await
    manager,             \* BotManager.running, the dashboard's stop flags, finished tasks
    ws                   \* BinanceClient: websocket flags, attempt counter, streams

vars == <<running, paused, positions, last_trades, consecutive_losses, daily_pnl,
          daily_trades, symbol_info, daily_stats, max_spread_pct, bb_squeeze_threshold,
          journal, orders, last_order, client_open, db_open, phase, cycle, shutdown_todo,
          trading_paused, now, breaker_ok, last, fn_in, fn_out, candles_buffer,
          last_update, in_call, manager, ws>>

botVars == <<positions, last_trades, consecutive_losses, daily_pnl, daily_trades,
             journal, orders, last_order>>
cfgVars == <<max_spread_pct, bb_squeeze_threshold>>
fnVars == <<fn_in, fn_out>>
dataVars == <<candles_buffer, last_update>>
envVars == <<symbol_info, daily_stats, cfgVars, ws, dataVars, in_call, manager, fnVars, client_open,
             db_open,
             trading_paused, now>>

Ev(op, symbol, result, signal, size) ==
    [op |-> op, symbol |-> symbol, result |-> result, signal |-> signal, size |-> size]

OpenSymbols == DOMAIN positions

\* the membership test lost: every pair is treated as free
HasPosition_never(symbol) == FALSE

\* _trading_cycle: `symbol in self.positions`
HasPosition(symbol) == symbol \in DOMAIN positions

\* the limit taken as reached only once it is exceeded
BelowPositionLimit_inclusive(limit) == Cardinality(DOMAIN positions) <= limit

\* _trading_cycle: len(self.positions) < self.config['risk']['max_positions']
BelowPositionLimit(limit) == Cardinality(DOMAIN positions) < limit

NotEvaluated == [done |-> FALSE, value |-> FALSE]

\* --------------------------------------------------------- RiskManager
\* the loss gate off by one: > instead of >=
check_circuit_breakers_late(cl, pnl, max_spread) ==
    IF cl > max_consecutive_losses THEN FALSE
    ELSE IF pnl <= -(daily_loss_limit * MoneyScale) THEN FALSE
    ELSE IF max_spread >= max_spread_pct THEN FALSE
    ELSE TRUE

\* RiskManager.check_circuit_breakers: False blocks the cycle.
check_circuit_breakers(cl, pnl, max_spread) ==
    IF cl >= max_consecutive_losses THEN FALSE
    ELSE IF pnl <= -(daily_loss_limit * MoneyScale) THEN FALSE
    ELSE IF max_spread >= max_spread_pct THEN FALSE
    ELSE TRUE

\* config['risk'] as the risk manager reads it (whole USDT, percent)
risk_config ==
    [position_size_pct |-> position_size_pct, position_size_min |-> position_size_min,
     position_size_max |-> position_size_max, min_order_size |-> min_order_size]

\* the rejected size handed on instead of 0
PositionSizeFor_unrejected(config, available_balance) ==
    LET base_size == (available_balance \div 100) * config.position_size_pct
    IN  Min(Max(base_size, config.position_size_min * MoneyScale),
            config.position_size_max * MoneyScale)

\* RiskManager.calculate_position_size, body, for the risk settings `config`.
\* available_balance is a multiple of 100 money units, so the division is exact.
PositionSizeFor(config, available_balance) ==
    LET base_size == (available_balance \div 100) * config.position_size_pct
        size == Min(Max(base_size, config.position_size_min * MoneyScale),
                    config.position_size_max * MoneyScale)
    IN  IF size < config.min_order_size * MoneyScale THEN 0 ELSE size

\* RiskManager.calculate_position_size (current_price is unused by the code)
calculate_position_size(available_balance, current_price) ==
    PositionSizeFor(risk_config, available_balance)

\* TradingBot.get_available_balance
get_available_balance ==
    LET used_capital ==
            LET RECURSIVE Sum(_)
                Sum(S) == IF S = {} THEN 0
                          ELSE LET s == CHOOSE x \in S : TRUE
                               IN  positions[s].quantity * positions[s].entry_price
                                     * (MoneyScale \div QtyScale) + Sum(S \ {s})
            IN  Sum(OpenSymbols)
    IN  total_capital * trading_capital_pct * (MoneyScale \div 100) - used_capital

\* --------------------------------------------------------- OrderExecutor
\* the quantity rounded to the nearest step instead of floored
AdjustToInfo_rounded(info, num, den) ==
    LET qty == ((2 * num + den * info.step_size) \div (2 * den * info.step_size))
                  * info.step_size
    IN  Min(Max(qty, info.min_qty), info.max_qty)

\* OrderExecutor._adjust_quantity, after the cache lookup: floor the raw
\* quantity num/den to the lot step, then clamp to [min_qty, max_qty]
AdjustToInfo(info, num, den) ==
    LET qty == (num \div (den * info.step_size)) * info.step_size
    IN  Min(Max(qty, info.min_qty), info.max_qty)

\* the cache lookup lost: constraints are taken for any symbol
_adjust_quantity_uncached(symbol, num, den) ==
    AdjustToInfo(SymbolConstraints[symbol], num, den)

\* OrderExecutor._adjust_quantity.  The raw quantity is the rational num/den
\* (in quantity units): floor to the lot step, then clamp to [min_qty, max_qty].
\* A symbol without cached constraints yields 0.
_adjust_quantity(symbol, num, den) ==
    IF symbol \notin symbol_info THEN 0
    ELSE AdjustToInfo(SymbolConstraints[symbol], num, den)

\* BinanceClient.place_order: the exchange accepts (accept) or the call fails;
\* a closed client fails every call.  An accepted order is filled at `fill`.
place_order(symbol, side, quantity, accept, fill) ==
    IF accept /\ client_open /\ orders < MaxOrders
    THEN [orderId |-> orders + 1, symbol |-> symbol, side |-> side,
          price |-> fill, executedQty |-> quantity]
    ELSE NoOrder

\* OrderExecutor.market_buy: None, or the order the exchange filled.
market_buy(symbol, usdt_amount, current_price, accept, fill) ==
    IF current_price = NoPrice THEN NoOrder
    ELSE LET quantity == _adjust_quantity(symbol, usdt_amount,
                                          current_price * (MoneyScale \div QtyScale))
         IN  IF quantity = 0 THEN NoOrder
             ELSE IF quantity * current_price * (MoneyScale \div QtyScale)
                       < SymbolConstraints[symbol].min_notional * MoneyScale
             THEN NoOrder
             ELSE place_order(symbol, "BUY", quantity, accept, fill)

\* OrderExecutor.market_sell: None, or the order the exchange filled.
market_sell(symbol, quantity, accept, fill) ==
    LET adjusted == _adjust_quantity(symbol, quantity, 1)
    IN  IF adjusted = 0 THEN NoOrder
        ELSE place_order(symbol, "SELL", adjusted, accept, fill)

\* OrderExecutor.limit_buy: None, or the order the exchange accepted at the
\* limit price.  A price of 0 raises in the division and is caught; rounding
\* to the price precision leaves a whole price as it is.
limit_buy(symbol, price, usdt_amount, accept) ==
    IF price = 0 THEN NoOrder
    ELSE LET quantity == _adjust_quantity(symbol, usdt_amount,
                                          price * (MoneyScale \div QtyScale))
         IN  IF quantity = 0 THEN NoOrder
             ELSE place_order(symbol, "BUY", quantity, accept, price)

\* --------------------------------------------------------- signal evaluation
\* the band condition dropped: a partial match enters
_check_buy_conditions_partial(indicators, current_price) ==
    /\ indicators.rsi < rsi_oversold
    /\ current_price > indicators.ema
    /\ indicators.volume_ratio > min_volume_ratio
    /\ indicators.bb_width > min_bb_width
    /\ indicators.bb_width < bb_squeeze_threshold

\* TradingBot._check_buy_conditions: the list `conditions`, under the
\* thresholds of a strategy section
conditions(strategy, indicators, current_price) ==
    << indicators.rsi < strategy.rsi_oversold,
       current_price < indicators.bb_lower,
       current_price > indicators.ema,
       indicators.volume_ratio > strategy.min_volume_ratio,
       indicators.bb_width > strategy.min_bb_width,
       indicators.bb_width < strategy.bb_squeeze_threshold >>

\* Python's all() on the first n entries
All(list, n) == \A i \in 1..n : list[i]

\* config['strategy'] as configured
strategy ==
    [rsi_oversold |-> rsi_oversold, min_volume_ratio |-> min_volume_ratio,
     min_bb_width |-> min_bb_width, bb_squeeze_threshold |-> bb_squeeze_threshold]

\* TradingBot._check_buy_conditions: all six conditions must hold.
_check_buy_conditions(indicators, current_price) ==
    All(conditions(strategy, indicators, current_price), 6)

\* _check_buy_conditions as _analyze_entry sees it: when the first four
\* conditions hold the debug line divides by bb_upper - bb_lower, which
\* raises on equal bands; otherwise the signal is all six conditions
BuyDecision(thresholds, indicators, current_price) ==
    LET list == conditions(thresholds, indicators, current_price)
    IN  IF All(list, 4) /\ indicators.bb_upper = indicators.bb_lower THEN "raised"
        ELSE IF All(list, 6) THEN "enter"
        ELSE "hold"

\* the values computed so far are handed out when the computation fails
calculate_all_partial(computation) == computation.indicators

\* BacktestValidator._check_entry_conditions: the entry test of the trade
\* simulation, on the candle's close and the parameter set under test.
_check_entry_conditions(indicators, candle, params) ==
    /\ indicators.rsi < params.rsi_oversold
    /\ candle.close < indicators.bb_lower
    /\ candle.close > indicators.ema
    /\ indicators.volume_ratio > min_volume_ratio
    /\ indicators.bb_width > min_bb_width

\* TechnicalIndicators._default_indicators
_default_indicators ==
    [rsi |-> 50, bb_upper |-> 0, bb_lower |-> 0, bb_width |-> 0, ema |-> 0,
     volume_ratio |-> 10]

\* TechnicalIndicators.calculate_all: the computed snapshot, or the default
\* one when anything in the computation raised
calculate_all(computation) ==
    IF computation.raised THEN _default_indicators ELSE computation.indicators

\* indicator snapshots the candle window can yield in the live loop
Snapshots ==
    { [rsi |-> 28, bb_upper |-> 221, bb_lower |-> 201, bb_width |-> 10, ema |-> 195,
       volume_ratio |-> 8],
      [rsi |-> 28, bb_upper |-> 219, bb_lower |-> 199, bb_width |-> 10, ema |-> 195,
       volume_ratio |-> 8],
      _default_indicators }

\* --------------------------------------------------------- trade journal
\* DatabaseHandler.save_trade: a new row; order_id is the empty default when
\* the caller passes none.
save_trade(rows, trade_data) ==
    Append(rows,
           [pair |-> trade_data.pair, status |-> trade_data.status,
            order_id |-> IF "order_id" \in DOMAIN trade_data
                         THEN trade_data.order_id ELSE NoOrderId,
            exit_price |-> 0, pnl |-> 0, exit_reason |-> ""])

\* DatabaseHandler.update_trade: UPDATE ... WHERE order_id = ? AND status = 'OPEN'
update_trade(rows, update_data) ==
    [i \in DOMAIN rows |->
        IF rows[i].order_id = update_data.order_id /\ rows[i].status = "OPEN"
        THEN [rows[i] EXCEPT !.exit_price = update_data.exit_price,
                             !.pnl = update_data.pnl,
                             !.exit_reason = update_data.exit_reason,
                             !.status = "CLOSED"]
        ELSE rows[i]]

\* --------------------------------------------------------- market data
\* BinanceClient.get_ticker returns None or a dict keyed bid/ask/last/volume.
NoTicker == [none |-> TRUE]
Tickers == {NoTicker, [bid |-> 1000, ask |-> 1001, last |-> 1000, volume |-> 1]}
Raised == -1

\* TradingBot._get_spread: reads ticker['bidPrice'] and ticker['askPrice'];
\* a dict without these keys raises KeyError, no ticker yields the 0.1 default.
_get_spread(ticker) ==
    IF ticker = NoTicker THEN DefaultSpread
    ELSE IF {"bidPrice", "askPrice"} \subseteq DOMAIN ticker
    THEN ((ticker.askPrice - ticker.bidPrice) * 1000) \div ticker.bidPrice
    ELSE Raised

\* TradingBot._get_max_spread over the tickers of all pairs; the first raising
\* _get_spread aborts it.
_get_max_spread(tickers) ==
    LET RECURSIVE Go(_, _)
        Go(i, max_spread) ==
            IF i > Len(trading_pairs) THEN max_spread
            ELSE LET spread == _get_spread(tickers[trading_pairs[i]])
                 IN  IF spread = Raised THEN Raised
                     ELSE Go(i + 1, Max(max_spread, spread))
    IN  Go(1, 0)

\* TradingBot._check_cooldown
_check_cooldown(symbol) ==
    IF symbol \notin DOMAIN last_trades THEN TRUE
    ELSE now - last_trades[symbol] > cooldown_seconds

\* timedelta.seconds: the seconds component, days dropped
Seconds(delta) == delta % DaySeconds

Remove(dict, key) == [k \in (DOMAIN dict) \ {key} |-> dict[k]]
Put(dict, key, value) == [k \in (DOMAIN dict) \cup {key} |-> IF k = key THEN value ELSE dict[k]]

\* -float('inf') as a fraction below every score, and the place of a score
\* when run_backtest returned None
MinusInfinity == [num |-> -1, den |-> 0]
NoScore == -1

\* the tasks that call _close_position: the loop of TradingBot.run and
\* TradingBot.shutdown; a task outside such a call is idle
Tasks == {"run", "shutdown"}
Idle == [op |-> "idle", symbol |-> ""]

\* ------------------------------------------------------------ market data
\* BinanceClient.get_klines at time t: the open times (in candle periods) of
\* the last `limit` candles, the one still forming included.
get_klines(t, limit) ==
    [i \in 1..limit |-> (t \div CandleSeconds) - limit + i]

\* DataManager._needs_update
_needs_update(symbol) ==
    \/ symbol \notin DOMAIN last_update
    \/ Seconds(now - last_update[symbol]) > UpdateAfterSeconds

\* DataManager._update_candles on the exchange's answer (an empty sequence:
\* no klines, or the request raised): the buffer and the fetch time after it.
\* Old candles are kept unless the answer holds the same open time.  The
\* buffer_days cut-off lies beyond the clock of the model.
_update_candles(symbol, klines) ==
    IF klines = << >>
    THEN [candles_buffer |-> candles_buffer, last_update |-> last_update]
    ELSE LET InNew(c) == \E i \in 1..Len(klines) : klines[i] = c
             Older(c) == ~InNew(c)
             combined == IF symbol \in DOMAIN candles_buffer
                         THEN SelectSeq(candles_buffer[symbol], Older) \o klines
                         ELSE klines
         IN  [candles_buffer |-> Put(candles_buffer, symbol, combined),
              last_update |-> Put(last_update, symbol, now)]

\* DataManager.get_latest_candles on the exchange's answer, should it ask:
\* the data manager's fields after the call and the series returned.
\* (an absent symbol yields None, the empty series here)
LastCandles(series, limit) ==
    IF Len(series) > limit
    THEN SubSeq(series, Len(series) - limit + 1, Len(series))
    ELSE series

get_latest_candles(symbol, limit, klines) ==
    LET u == IF symbol \notin DOMAIN candles_buffer \/ _needs_update(symbol)
             THEN _update_candles(symbol, klines)
             ELSE [candles_buffer |-> candles_buffer, last_update |-> last_update]
    IN  [candles_buffer |-> u.candles_buffer, last_update |-> u.last_update,
         candles |-> IF symbol \in DOMAIN u.candles_buffer
                     THEN LastCandles(u.candles_buffer[symbol], limit) ELSE << >>]

\* ---------------------------------------------------------------- backtest
\* BacktestValidator._get_default_params
_get_default_params ==
    [rsi_oversold |-> rsi_oversold, rsi_overbought |-> rsi_overbought,
     stop_loss_pct |-> stop_loss_pct_x10, take_profit_pct |-> take_profit_pct_x10]

\* dict.update
Update(dict, other) ==
    [k \in (DOMAIN dict) \cup (DOMAIN other) |->
        IF k \in DOMAIN other THEN other[k] ELSE dict[k]]

\* BacktestValidator._generate_param_combinations: itertools.product over the
\* grid's value lists, the last key varying fastest.  The grid is a sequence
\* of [key, values] in the dict's order.
RECURSIVE _generate_param_combinations(_)
_generate_param_combinations(param_grid) ==
    IF param_grid = << >> THEN << << >> >>
    ELSE LET rest == _generate_param_combinations(Tail(param_grid))
             key == Head(param_grid).key
             values == Head(param_grid).values
         IN  [n \in 1..(Len(values) * Len(rest)) |->
                 Put(rest[((n - 1) % Len(rest)) + 1], key,
                     values[((n - 1) \div Len(rest)) + 1])]

\* exact fractions for the float results of the metrics
Rat(n, d) == [num |-> n, den |-> d]
RatAdd(x, y) == Rat(x.num * y.den + y.num * x.den, x.den * y.den)
RatMul(x, y) == Rat(x.num * y.num, x.den * y.den)
RatEq(x, y) == x.num * y.den = y.num * x.den

RECURSIVE SumSeq(_)
SumSeq(seq) == IF seq = << >> THEN 0 ELSE Head(seq) + SumSeq(Tail(seq))

Abs(x) == IF x < 0 THEN -x ELSE x

\* total_profit / total_loss if total_loss > 0 else 0
profit_factor_unguarded(total_profit, total_loss) ==
    IF total_loss > 0 THEN Rat(total_profit, total_loss) ELSE Rat(total_profit, 1)

profit_factor(total_profit, total_loss) ==
    IF total_loss > 0 THEN Rat(total_profit, total_loss) ELSE Rat(0, 1)

\* the metrics of a non-empty trade list from its winning and losing pnl
\* values (pnl in tenths of a percent, and so are the two means and the
\* expectancy).  max_drawdown and sharpe_ratio, a compounded product and a
\* square root, are left out of the record.
MetricsOf(pnl, winning, losing) ==
    LET total_trades == Len(pnl)
        winning_trades == Len(winning)
        losing_trades == Len(losing)
        win_rate == Rat(winning_trades * 100, total_trades)
        total_profit == SumSeq(winning)
        total_loss == Abs(SumSeq(losing))
        avg_profit == IF winning_trades > 0 THEN Rat(SumSeq(winning), winning_trades)
                      ELSE Rat(0, 1)
        avg_loss == IF losing_trades > 0 THEN Rat(SumSeq(losing), losing_trades)
                    ELSE Rat(0, 1)
    IN  [total_trades |-> total_trades,
         win_rate |-> win_rate,
         profit_factor |-> profit_factor(total_profit, total_loss),
         avg_profit |-> avg_profit,
         avg_loss |-> avg_loss,
         expectancy |->
             RatAdd(RatMul(Rat(win_rate.num, win_rate.den * 100), avg_profit),
                    RatMul(Rat(100 * win_rate.den - win_rate.num, win_rate.den * 100),
                           avg_loss)),
         winning_trades |-> winning_trades,
         losing_trades |-> losing_trades]

\* the trades' pnl_percent column
PnlColumn(trades) == [i \in 1..Len(trades) |-> trades[i].pnl_percent]

_calculate_metrics_flat(trades) ==
    IF trades = << >>
    THEN [total_trades |-> 0, win_rate |-> Rat(0, 1), profit_factor |-> Rat(0, 1),
          avg_profit |-> Rat(0, 1), avg_loss |-> Rat(0, 1), max_drawdown |-> Rat(0, 1),
          sharpe_ratio |-> Rat(0, 1), expectancy |-> Rat(0, 1)]
    ELSE LET IsWin(x) == x > 0
             IsLoss(x) == x <= 0
         IN  MetricsOf(PnlColumn(trades), SelectSeq(PnlColumn(trades), IsWin),
                       SelectSeq(PnlColumn(trades), IsLoss))

\* BacktestValidator._calculate_metrics
_calculate_metrics(trades) ==
    IF trades = << >>
    THEN [total_trades |-> 0, win_rate |-> Rat(0, 1), profit_factor |-> Rat(0, 1),
          avg_profit |-> Rat(0, 1), avg_loss |-> Rat(0, 1), max_drawdown |-> Rat(0, 1),
          sharpe_ratio |-> Rat(0, 1), expectancy |-> Rat(0, 1)]
    ELSE LET IsWin(x) == x > 0
             IsLoss(x) == x < 0
         IN  MetricsOf(PnlColumn(trades), SelectSeq(PnlColumn(trades), IsWin),
                       SelectSeq(PnlColumn(trades), IsLoss))

\* run_backtest returning None
NoResult == [symbol |-> ""]

\* BacktestValidator.run_backtest on the exchange's answer to a refresh: the
\* data manager's fields after it and its result.  The simulated trades and
\* their metrics are functions of (candles, params): the result carries the
\* series that was replayed in their place.
run_backtest(symbol, params, klines) ==
    LET g == get_latest_candles(symbol, BacktestLimit, klines)
    IN  [candles_buffer |-> g.candles_buffer, last_update |-> g.last_update,
         result |-> IF Len(g.candles) < MinBacktestCandles
                    THEN NoResult
                    ELSE [symbol |-> symbol, params |-> params, candles |-> g.candles]]

\* ------------------------------------------------------- daily risk stats
RECURSIVE GCD(_, _)
GCD(a, b) == IF b = 0 THEN a ELSE GCD(b, a % b)

\* a fraction of non-negative parts in lowest terms
Lowest(n, d) == Rat(n \div GCD(n, d), d \div GCD(n, d))

RatMax(x, y) == IF x.num * y.den >= y.num * x.den THEN x ELSE y

\* the drawdown and the peak after a trade result, from the totals after it
Drawdown(stats, total_profit, total_loss) ==
    LET current_balance == StatsStartBalance * MoneyScale + total_profit - total_loss
        peak_balance == Max(stats.peak_balance, current_balance)
    IN  [peak_balance |-> peak_balance,
         max_drawdown |-> RatMax(stats.max_drawdown,
                                 Lowest(peak_balance - current_balance, peak_balance))]

update_daily_stats_strict(stats, trade_result) ==
    LET pnl == IF "pnl" \in DOMAIN trade_result THEN trade_result.pnl ELSE 0
        total_profit == IF pnl >= 0 THEN stats.total_profit + pnl ELSE stats.total_profit
        total_loss == IF pnl >= 0 THEN stats.total_loss ELSE stats.total_loss + Abs(pnl)
        d == Drawdown(stats, total_profit, total_loss)
    IN  [total_loss |-> total_loss,
         total_profit |-> total_profit,
         trades |-> stats.trades + 1,
         consecutive_losses |-> IF pnl >= 0 THEN 0 ELSE stats.consecutive_losses + 1,
         max_drawdown |-> d.max_drawdown,
         peak_balance |-> d.peak_balance]

\* RiskManager.update_daily_stats: daily_stats after the call (start_time,
\* which it does not touch, is not part of the record)
update_daily_stats(stats, trade_result) ==
    LET pnl == IF "pnl" \in DOMAIN trade_result THEN trade_result.pnl ELSE 0
        total_profit == IF pnl > 0 THEN stats.total_profit + pnl ELSE stats.total_profit
        total_loss == IF pnl > 0 THEN stats.total_loss ELSE stats.total_loss + Abs(pnl)
        d == Drawdown(stats, total_profit, total_loss)
    IN  [total_loss |-> total_loss,
         total_profit |-> total_profit,
         trades |-> stats.trades + 1,
         consecutive_losses |-> IF pnl > 0 THEN 0 ELSE stats.consecutive_losses + 1,
         max_drawdown |-> d.max_drawdown,
         peak_balance |-> d.peak_balance]

\* RiskManager.reset_daily_stats
reset_daily_stats(stats) ==
    [total_loss |-> 0, total_profit |-> 0, trades |-> 0, consecutive_losses |-> 0,
     max_drawdown |-> Rat(0, 1), peak_balance |-> stats.peak_balance]

\* ------------------------------------------------------ websocket streams
\* config_loader: binance.ws_max_reconnect_attempts
ws_max_reconnect_attempts == 5

\* the largest sleep between two connection attempts, in seconds
MaxBackoffSeconds == 32

backoff_uncapped(reconnect_attempts) == 2 ^ reconnect_attempts

\* _ws_connect: wait_time = min(2 ** self.reconnect_attempts, 32)
backoff(reconnect_attempts) == Min(2 ^ reconnect_attempts, MaxBackoffSeconds)

\* BinanceClient.__init__: no stream yet, one attempt counter for the client
WsNew(max_attempts) ==
    [ws_running |-> FALSE, use_rest_fallback |-> FALSE, reconnect_attempts |-> 0,
     ws_max_reconnect_attempts |-> max_attempts,
     streams |-> [s \in Symbols |-> "none"],
     wait_time |-> [s \in Symbols |-> 0]]

\* _start_websocket: one _ws_connect task per trading pair
_start_websocket(w) ==
    [w EXCEPT !.ws_running = TRUE, !.streams = [s \in Symbols |-> "connecting"]]

\* _ws_connect, websockets.connect succeeded: the counter goes back to 0
WsConnected(w, symbol) ==
    [w EXCEPT !.reconnect_attempts = 0, !.streams[symbol] = "connected"]

\* _ws_connect, except Exception: count the failure, then either give up
\* this stream and switch the client to REST, or sleep before the retry
WsFailed(w, symbol) ==
    LET attempts == w.reconnect_attempts + 1
    IN  IF attempts >= w.ws_max_reconnect_attempts
        THEN [w EXCEPT !.reconnect_attempts = attempts, !.use_rest_fallback = TRUE,
                       !.streams[symbol] = "stopped"]
        ELSE [w EXCEPT !.reconnect_attempts = attempts,
                       !.wait_time[symbol] = backoff(attempts),
                       !.streams[symbol] = "waiting"]

\* _ws_connect: the `while self.ws_running` test at the top of the loop
WsLoop(w, symbol) ==
    [w EXCEPT !.streams[symbol] = IF w.ws_running THEN "connecting" ELSE "stopped"]

\* BinanceClient.close: the streams are told to end
WsClose(w) == [w EXCEPT !.ws_running = FALSE]

\* ------------------------------------------------------------------- Init
\* The three tasks BotManager.start hands to asyncio.gather.
ManagerTasks == {"bot.run", "dashboard.run", "_monitor_loop"}

\* BotManager.__init__ and Dashboard.__init__: the manager is not running, the
\* dashboard is, no stop was requested, no task has returned.
ManagerNew == [running |-> FALSE, dashboard_running |-> TRUE, should_stop |-> FALSE,
               done |-> {}]

\* The objects right after construction (TradingBot.__init__,
\* OrderExecutor.__init__, RiskManager.__init__, an empty trades table).
InitObjects ==
    /\ running = FALSE
    /\ paused = FALSE
    /\ positions = << >>
    /\ last_trades = << >>
    /\ consecutive_losses = 0
    /\ daily_pnl = 0
    /\ daily_trades = 0
    /\ symbol_info = {}
    /\ daily_stats = [total_loss |-> 0, total_profit |-> 0, trades |-> 0,
                      consecutive_losses |-> 0, max_drawdown |-> Rat(0, 1),
                      peak_balance |-> total_capital * MoneyScale]
    /\ max_spread_pct \in MaxSpreadPcts
    /\ bb_squeeze_threshold \in SqueezeThresholds
    /\ journal = << >>
    /\ orders = 0
    /\ last_order = NoOrder
    /\ client_open = FALSE
    /\ db_open = FALSE
    /\ phase = "constructed"
    /\ cycle = 0
    /\ shutdown_todo = {}
    /\ trading_paused = FALSE
    /\ candles_buffer = [s \in Symbols |-> get_klines(0, DownloadLimit)]
    /\ last_update = [s \in Symbols |-> 0]
    /\ in_call = [t \in Tasks |-> Idle]
    /\ manager = ManagerNew
    /\ breaker_ok = TRUE
    /\ last = Ev("init", "", "", FALSE, 0)

InitBot ==
    /\ InitObjects
    /\ ws = WsNew(ws_max_reconnect_attempts)

Init ==
    /\ InitBot
    /\ now = 0
    /\ fn_in = << >>
    /\ fn_out = NotEvaluated

\* ----------------------------------------------------------- start-up
\* TradingBot.initialize: client, executor (empty constraint cache), risk
\* manager and database; a failing client/database aborts start-up.  When it
\* succeeds BotManager.start sets its own running flag before creating tasks.
Initialize ==
    /\ phase = "constructed"
    /\ \E ok \in BOOLEAN :
        IF ok
        THEN /\ phase' = "initialized"
             /\ client_open' = TRUE
             /\ db_open' = TRUE
             /\ ws' = _start_websocket(ws)
             /\ manager' = [manager EXCEPT !.running = TRUE]
             /\ last' = Ev("initialize", "", "ok", FALSE, 0)
        ELSE /\ phase' = "failed"
             /\ UNCHANGED <<client_open, db_open, ws, manager>>
             /\ last' = Ev("initialize", "", "raised", FALSE, 0)
    /\ UNCHANGED <<running, paused, botVars, symbol_info, daily_stats, cfgVars, dataVars, in_call,
                   fnVars,
                   cycle, shutdown_todo, trading_paused, now, breaker_ok>>

\* OrderExecutor.initialize: caches the constraints of every pair whose
\* get_symbol_info succeeds.  TradingBot.initialize does not call it; it is
\* an operation a caller of the executor may perform before the loop starts.
ExecutorInitialize ==
    /\ phase = "initialized"
    /\ symbol_info = {}
    /\ \E fetched \in {Symbols, {trading_pairs[1]}} :
        symbol_info' = fetched
    /\ UNCHANGED <<running, paused, botVars, daily_stats, cfgVars, ws, dataVars, in_call, manager,
                   fnVars, client_open,
                   db_open, phase, cycle, shutdown_todo, trading_paused, now, breaker_ok,
                   last>>

\* TradingBot.run, entry: running = True.
Run ==
    /\ phase = "initialized"
    /\ running' = TRUE
    /\ phase' = "running"
    /\ last' = Ev("run", "", "started", FALSE, 0)
    /\ UNCHANGED <<paused, botVars, envVars, cycle, shutdown_todo, breaker_ok>>

\* ----------------------------------------------------------- trading loop
NextCycle == IF cycle = Len(trading_pairs) THEN 0 ELSE cycle + 1

\* One iteration of TradingBot.run up to the first pair of _trading_cycle:
\* pause and trading-hour test, _get_max_spread, check_circuit_breakers.
\* An exception of _get_max_spread leaves the cycle through run's handler.
RunIteration ==
    /\ running
    /\ cycle = 0
    /\ \E trading_hour \in BOOLEAN, tickers \in [Symbols -> Tickers] :
        IF paused \/ ~trading_hour
        THEN /\ last' = Ev("run", "", "idle", FALSE, 0)
             /\ UNCHANGED <<paused, cycle, breaker_ok>>
        ELSE LET max_spread == _get_max_spread(tickers)
             IN  IF max_spread = Raised
                 THEN /\ last' = Ev("cycle", "", "raised", FALSE, 0)
                      /\ UNCHANGED <<paused, cycle, breaker_ok>>
                 ELSE LET ok == check_circuit_breakers(consecutive_losses, daily_pnl,
                                                       max_spread)
                      IN  /\ breaker_ok' = ok
                          /\ paused' = IF ok THEN paused ELSE TRUE
                          /\ cycle' = IF ok THEN 1 ELSE 0
                          /\ last' = Ev("cycle", "", IF ok THEN "started" ELSE "breaker",
                                        FALSE, 0)
    /\ UNCHANGED <<running, botVars, envVars, phase, shutdown_todo>>

\* _trading_cycle, loop body: the pair is inside its cooldown -> continue.
CooldownSkip ==
    /\ cycle > 0
    /\ ~_check_cooldown(trading_pairs[cycle])
    /\ cycle' = NextCycle
    /\ last' = Ev("cooldown", trading_pairs[cycle], "skipped", FALSE, 0)
    /\ UNCHANGED <<running, paused, botVars, envVars, phase, shutdown_todo, breaker_ok>>

\* a close whose removal from the map is left to a later step
_close_position_deferred(symbol, reason, accept, fill) ==
    LET position == positions[symbol]
        order == market_sell(symbol, position.quantity, accept, fill)
        unit == MoneyScale \div QtyScale
        net_pnl == (order.price - position.entry_price) * position.quantity * unit
                     - position.quantity * position.entry_price
                         * ((unit * total_cost_pct_x100) \div 10000)
    IN  IF order = NoOrder
        THEN [result |-> "failed", positions |-> positions, daily_pnl |-> daily_pnl,
              daily_trades |-> daily_trades, journal |-> journal, orders |-> orders,
              last_order |-> last_order]
        ELSE [result |-> "closed", positions |-> positions,
              daily_pnl |-> daily_pnl + net_pnl, daily_trades |-> daily_trades + 1,
              journal |-> journal, orders |-> order.orderId, last_order |-> order]

\* TradingBot._close_position as a function of the exchange's answer: the
\* values of the fields it writes and how it ended ("failed": no sell order,
\* nothing written; "raised": the journal update raised after the counters
\* were written, the position is kept; "closed").
_close_position(symbol, reason, accept, fill) ==
    LET position == positions[symbol]
        order == market_sell(symbol, position.quantity, accept, fill)
        unit == MoneyScale \div QtyScale
        actual_exit_price == order.price
        pnl == (actual_exit_price - position.entry_price) * position.quantity * unit
        fees == position.quantity * position.entry_price
                  * ((unit * total_cost_pct_x100) \div 10000)
        net_pnl == pnl - fees
    IN  IF order = NoOrder
        THEN [result |-> "failed", positions |-> positions, daily_pnl |-> daily_pnl,
              daily_trades |-> daily_trades, journal |-> journal, orders |-> orders,
              last_order |-> last_order]
        ELSE IF ~db_open
        THEN [result |-> "raised", positions |-> positions,
              daily_pnl |-> daily_pnl + net_pnl, daily_trades |-> daily_trades + 1,
              journal |-> journal, orders |-> order.orderId, last_order |-> order]
        ELSE [result |-> "closed", positions |-> Remove(positions, symbol),
              daily_pnl |-> daily_pnl + net_pnl, daily_trades |-> daily_trades + 1,
              journal |-> update_trade(journal,
                             [order_id |-> position.order_id,
                              exit_price |-> actual_exit_price, pnl |-> net_pnl,
                              exit_reason |-> reason]),
              orders |-> order.orderId, last_order |-> order]

\* TradingBot._manage_position: which exit, if any, the price triggers.
ExitReason(position, current_price) ==
    IF current_price * PriceScale <= position.stop_loss THEN "stop_loss"
    ELSE IF current_price * PriceScale >= position.take_profit THEN "take_profit"
    ELSE IF /\ (current_price - position.entry_price) * 100
                 >= QuickExitPct * position.entry_price
            /\ Seconds(now - position.entry_time) < QuickExitSeconds
    THEN "quick_exit"
    ELSE "hold"

\* BacktestValidator._simulate_trades, exit of an open simulated position:
\* stop against the candle's low, then target against its high.
BacktestExit(position, candle) ==
    IF candle.low * PriceScale <= position.stop_loss THEN "stop_loss"
    ELSE IF candle.high * PriceScale >= position.take_profit THEN "take_profit"
    ELSE "hold"

\* The consecutive-loss counter after _manage_position's branch for `reason`
\* (the statement after the await runs unless _close_position raised).
LossesAfter(reason, result) ==
    IF result = "raised" THEN consecutive_losses
    ELSE IF reason = "stop_loss" THEN consecutive_losses + 1
    ELSE 0

\* _trading_cycle, loop body: the pair has a position -> _manage_position.
ManagePosition ==
    /\ cycle > 0
    /\ _check_cooldown(trading_pairs[cycle])
    /\ HasPosition(trading_pairs[cycle])
    /\ LET symbol == trading_pairs[cycle]
           position == positions[symbol]
       IN  \E current_price \in Prices \cup {NoPrice} :
             IF current_price = NoPrice
             THEN /\ last' = Ev("manage", symbol, "no_price", FALSE, 0)
                  /\ UNCHANGED botVars
             ELSE IF ExitReason(position, current_price) = "hold"
             THEN /\ last' = Ev("manage", symbol, "hold", FALSE, 0)
                  /\ UNCHANGED botVars
             ELSE \E accept \in BOOLEAN :
                    LET reason == ExitReason(position, current_price)
                        c == _close_position(symbol, reason, accept, current_price)
                    IN  /\ positions' = c.positions
                        /\ daily_pnl' = c.daily_pnl
                        /\ daily_trades' = c.daily_trades
                        /\ journal' = c.journal
                        /\ orders' = c.orders
                        /\ last_order' = c.last_order
                        /\ consecutive_losses' = LossesAfter(reason, c.result)
                        /\ last' = Ev(reason, symbol, c.result, FALSE, 0)
                        /\ UNCHANGED last_trades
    /\ cycle' = NextCycle
    /\ UNCHANGED <<running, paused, envVars, phase, shutdown_todo, breaker_ok>>

\* the short-side formulas used for a long position
StopLevels_short(entry_price) ==
    [stop_loss |-> entry_price * (PriceScale + stop_loss_pct_x10),
     take_profit |-> entry_price * (PriceScale - take_profit_pct_x10)]

\* _execute_buy: stop_loss = entry * (1 - sl/100), take_profit = entry * (1 + tp/100)
StopLevels(entry_price) ==
    [stop_loss |-> entry_price * (PriceScale - stop_loss_pct_x10),
     take_profit |-> entry_price * (PriceScale + take_profit_pct_x10)]

\* RiskManager.calculate_stops (no caller in the bot)
calculate_stops(entry_price, side) ==
    IF side = "BUY"
    THEN [stop_loss |-> entry_price * (PriceScale - stop_loss_pct_x10),
          take_profit |-> entry_price * (PriceScale + take_profit_pct_x10)]
    ELSE [stop_loss |-> entry_price * (PriceScale + stop_loss_pct_x10),
          take_profit |-> entry_price * (PriceScale - take_profit_pct_x10)]

\* the cooldown timestamp written before the order's result is looked at
_execute_buy_stamped(symbol, size, price, accept, fill) ==
    LET order == market_buy(symbol, size, price, accept, fill)
        entry_price == order.price
        position == [entry_price |-> entry_price,
                     quantity |-> order.executedQty,
                     stop_loss |-> StopLevels(entry_price).stop_loss,
                     take_profit |-> StopLevels(entry_price).take_profit,
                     entry_time |-> now,
                     order_id |-> order.orderId]
    IN  IF order = NoOrder
        THEN [result |-> "failed", positions |-> positions,
              last_trades |-> Put(last_trades, symbol, now),
              journal |-> journal, orders |-> orders, last_order |-> last_order]
        ELSE [result |-> IF db_open THEN "opened" ELSE "raised",
              positions |-> Put(positions, symbol, position),
              last_trades |-> Put(last_trades, symbol, now),
              journal |-> IF db_open
                          THEN save_trade(journal,
                                   [pair |-> symbol, side |-> "BUY",
                                    entry_price |-> entry_price,
                                    quantity |-> position.quantity, status |-> "OPEN"])
                          ELSE journal,
              orders |-> order.orderId, last_order |-> order]

\* TradingBot._execute_buy as a function of the exchange's answer: the values
\* of the fields it writes and how it ended ("failed": market_buy returned
\* None; "raised": save_trade raised after the position was registered).
_execute_buy(symbol, size, price, accept, fill) ==
    LET order == market_buy(symbol, size, price, accept, fill)
        entry_price == order.price
        position == [entry_price |-> entry_price,
                     quantity |-> order.executedQty,
                     stop_loss |-> StopLevels(entry_price).stop_loss,
                     take_profit |-> StopLevels(entry_price).take_profit,
                     entry_time |-> now,
                     order_id |-> order.orderId]
    IN  IF order = NoOrder
        THEN [result |-> "failed", positions |-> positions, last_trades |-> last_trades,
              journal |-> journal, orders |-> orders, last_order |-> last_order]
        ELSE [result |-> IF db_open THEN "opened" ELSE "raised",
              positions |-> Put(positions, symbol, position),
              last_trades |-> Put(last_trades, symbol, now),
              journal |-> IF db_open
                          THEN save_trade(journal,
                                   [pair |-> symbol, side |-> "BUY",
                                    entry_price |-> entry_price,
                                    quantity |-> position.quantity, status |-> "OPEN"])
                          ELSE journal,
              orders |-> order.orderId, last_order |-> order]

\* _trading_cycle, loop body: the pair has no position -> position limit,
\* then _analyze_entry (candles, indicators, signal, spread, size, buy).
AnalyzeEntry ==
    /\ cycle > 0
    /\ _check_cooldown(trading_pairs[cycle])
    /\ ~HasPosition(trading_pairs[cycle])
    /\ LET symbol == trading_pairs[cycle]
       IN  IF ~BelowPositionLimit(max_positions)
           THEN /\ last' = Ev("entry", symbol, "limit", FALSE, 0)
                /\ UNCHANGED botVars
           ELSE \E enough_candles \in BOOLEAN, indicators \in Snapshots,
                   current_price \in Prices :
             IF ~enough_candles
             THEN /\ last' = Ev("entry", symbol, "no_data", FALSE, 0)
                  /\ UNCHANGED botVars
             ELSE IF ~_check_buy_conditions(indicators, current_price)
             THEN /\ last' = Ev("entry", symbol, "no_signal", FALSE, 0)
                  /\ UNCHANGED botVars
             ELSE \E ticker \in Tickers :
               LET spread == _get_spread(ticker)
                   position_size == calculate_position_size(get_available_balance,
                                                            current_price)
               IN  IF spread = Raised
                   THEN /\ last' = Ev("entry", symbol, "raised", TRUE, 0)
                        /\ UNCHANGED botVars
                   ELSE IF spread > strategy_max_spread
                   THEN /\ last' = Ev("entry", symbol, "spread", TRUE, 0)
                        /\ UNCHANGED botVars
                   ELSE IF position_size < min_order_size * MoneyScale
                   THEN /\ last' = Ev("entry", symbol, "no_size", TRUE, position_size)
                        /\ UNCHANGED botVars
                   ELSE \E price \in Prices \cup {NoPrice}, accept \in BOOLEAN :
                     LET b == _execute_buy(symbol, position_size, price, accept, price)
                     IN  /\ positions' = b.positions
                         /\ last_trades' = b.last_trades
                         /\ journal' = b.journal
                         /\ orders' = b.orders
                         /\ last_order' = b.last_order
                         /\ last' = Ev("buy", symbol, b.result, TRUE, position_size)
                         /\ UNCHANGED <<consecutive_losses, daily_pnl, daily_trades>>
    /\ cycle' = NextCycle
    /\ UNCHANGED <<running, paused, envVars, phase, shutdown_todo, breaker_ok>>

\* ----------------------------------------------------------- shutdown
\* TradingBot.shutdown up to its first await: running = False and the list of
\* positions to close when close_on_shutdown is configured.  BotManager.start
\* reaches it when asyncio.gather ends while the bot is running.
ShutdownBegin ==
    /\ phase = "running"
    /\ running' = FALSE
    /\ phase' = "stopping"
    /\ \E close_on_shutdown \in BOOLEAN :
         shutdown_todo' = IF close_on_shutdown THEN DOMAIN positions ELSE {}
    /\ last' = Ev("shutdown", "", "begin", FALSE, 0)
    /\ UNCHANGED <<paused, botVars, envVars, cycle, breaker_ok>>

\* TradingBot.shutdown: one _close_position(symbol, 0, 'shutdown').  A symbol
\* the loop closed in the meantime raises KeyError and ends shutdown.
ShutdownClose ==
    /\ phase = "stopping"
    /\ \E symbol \in shutdown_todo :
        IF symbol \notin DOMAIN positions
        THEN /\ phase' = "aborted"
             /\ shutdown_todo' = {}
             /\ last' = Ev("shutdown", symbol, "raised", FALSE, 0)
             /\ UNCHANGED botVars
        ELSE \E accept \in BOOLEAN, fill \in Prices :
               LET c == _close_position(symbol, "shutdown", accept, fill)
               IN  /\ positions' = c.positions
                   /\ daily_pnl' = c.daily_pnl
                   /\ daily_trades' = c.daily_trades
                   /\ journal' = c.journal
                   /\ orders' = c.orders
                   /\ last_order' = c.last_order
                   /\ shutdown_todo' = shutdown_todo \ {symbol}
                   /\ last' = Ev("shutdown", symbol, c.result, FALSE, 0)
                   /\ UNCHANGED <<phase, last_trades, consecutive_losses>>
    /\ UNCHANGED <<running, paused, envVars, cycle, breaker_ok>>

\* TradingBot.shutdown, end: client.close() and db.close().
ShutdownFinish ==
    /\ phase = "stopping"
    /\ shutdown_todo = {}
    /\ client_open' = FALSE
    /\ db_open' = FALSE
    /\ ws' = WsClose(ws)
    /\ phase' = "stopped"
    /\ last' = Ev("shutdown", "", "done", FALSE, 0)
    /\ UNCHANGED <<running, paused, botVars, symbol_info, daily_stats, cfgVars, dataVars, in_call, manager,
                   fnVars,
                   cycle, shutdown_todo, trading_paused, now, breaker_ok>>

\* ----------------------------------------------------------- dashboard
\* BotManager._monitor_loop, one iteration of the running loop without a stop
\* request: copy the dashboard's pause flag.
MonitorLoop ==
    /\ phase = "running"
    /\ cycle = 0
    /\ manager.running
    /\ ~manager.should_stop
    /\ "_monitor_loop" \notin manager.done
    /\ trading_paused # paused
    /\ paused' = trading_paused
    /\ UNCHANGED <<running, botVars, envVars, phase, cycle, shutdown_todo, breaker_ok,
                   last>>

\* Dashboard.handle_keyboard, key 'p': toggle trading_paused.
KeyPause ==
    /\ phase = "running"
    /\ cycle = 0
    /\ manager.dashboard_running
    /\ trading_paused' = ~trading_paused
    /\ UNCHANGED <<running, paused, botVars, symbol_info, daily_stats, cfgVars, ws, dataVars, in_call, manager,
                   fnVars,
                   client_open, db_open, phase, cycle, shutdown_todo, now, breaker_ok,
                   last>>

\* ----------------------------------------------------------- clock
\* Time passes between two cycles, one tick at a time.  The clock is read
\* only against a stored timestamp, so it starts with the first trade.
AdvanceTime ==
    /\ phase = "running"
    /\ cycle = 0
    /\ DOMAIN last_trades # {}
    /\ now + TickSeconds <= MaxTicks * TickSeconds
    /\ now' = now + TickSeconds
    /\ UNCHANGED <<running, paused, botVars, symbol_info, daily_stats, cfgVars, ws, dataVars, in_call, manager,
                   fnVars,
                   client_open, db_open, phase, cycle, shutdown_todo, trading_paused,
                   breaker_ok, last>>

Next ==
    \/ Initialize
    \/ ExecutorInitialize
    \/ Run
    \/ RunIteration
    \/ CooldownSkip
    \/ ManagePosition
    \/ AnalyzeEntry
    \/ ShutdownBegin
    \/ ShutdownClose
    \/ ShutdownFinish
    \/ MonitorLoop
    \/ KeyPause
    \/ AdvanceTime

Spec == Init /\ [][Next]_vars

\* the bot over more than one day: a day goes by between two cycles, after
\* the day's trades were closed
DayPasses ==
    /\ phase = "running"
    /\ cycle = 0
    /\ daily_trades > 0
    /\ DOMAIN positions = {}
    /\ now < DaySeconds
    /\ now' = now + DaySeconds
    /\ UNCHANGED <<running, paused, botVars, symbol_info, daily_stats, cfgVars, ws, dataVars, in_call, manager,
                   fnVars, client_open, db_open, phase, cycle, shutdown_todo,
                   trading_paused, breaker_ok, last>>

SpecDay == Init /\ [][Next \/ DayPasses]_vars

\* ------------------------------------------- functions evaluated on their own
\* check_circuit_breakers on arguments around its three thresholds
BreakerInputs ==
    [consecutive_losses : 0..(max_consecutive_losses + 1),
     daily_pnl : {-(daily_loss_limit + 1) * MoneyScale, -(daily_loss_limit * MoneyScale) - 1,
                  -(daily_loss_limit * MoneyScale), -(daily_loss_limit * MoneyScale) + 1,
                  0, MoneyScale},
     max_spread : {0, 2, 3, 4, 149, 150, 151}]

InitBreaker ==
    /\ InitBot
    /\ now = 0
    /\ fn_in \in BreakerInputs
    /\ fn_out = NotEvaluated

CheckBreakers ==
    /\ ~fn_out.done
    /\ fn_out' = [done |-> TRUE,
                  value |-> check_circuit_breakers(fn_in.consecutive_losses,
                                                   fn_in.daily_pnl, fn_in.max_spread)]
    /\ UNCHANGED <<running, paused, botVars, symbol_info, daily_stats, cfgVars, ws, dataVars, in_call, manager,
                   fn_in,
                   client_open, db_open, trading_paused, now, phase, cycle,
                   shutdown_todo, breaker_ok, last>>

SpecBreaker == InitBreaker /\ [][CheckBreakers]_vars

\* _check_buy_conditions on snapshots around each of its six thresholds; the
\* documented example is rsi 28, price 99, bb_lower 100, ema 95, volume ratio
\* 0.8, bb_width 1.0
SignalInputs ==
    [indicators : [rsi : {28, 31, 32, 33}, bb_lower : {100}, ema : {95},
                   volume_ratio : {8, 6, 5}, bb_width : {10, 9, 8, 49, 50}],
     current_price : {99, 100, 101, 96, 95}]

InitSignal ==
    /\ InitBot
    /\ now = 0
    /\ fn_in \in SignalInputs
    /\ fn_out = NotEvaluated

EvaluateSignal ==
    /\ ~fn_out.done
    /\ fn_out' = [done |-> TRUE,
                  value |-> _check_buy_conditions(fn_in.indicators, fn_in.current_price)]
    /\ UNCHANGED <<running, paused, botVars, symbol_info, daily_stats, cfgVars, ws, dataVars, in_call, manager,
                   fn_in,
                   client_open, db_open, trading_paused, now, phase, cycle,
                   shutdown_todo, breaker_ok, last>>

SpecSignal == InitSignal /\ [][EvaluateSignal]_vars

\* the backtest's entry test beside the live one: the snapshots of
\* SignalInputs with the price as the candle's close, under the configured
\* oversold level and the two other levels of the optimisation grid
BacktestSignalInputs ==
    [indicators : [rsi : {28, 31, 32, 33}, bb_lower : {100}, ema : {95},
                   volume_ratio : {8, 6, 5}, bb_width : {10, 9, 8, 49, 50}],
     candle : [close : {99, 100, 101, 96, 95}],
     params : [rsi_oversold : {30, rsi_oversold, 35}]]

InitBacktestSignal ==
    /\ InitBot
    /\ now = 0
    /\ fn_in \in BacktestSignalInputs
    /\ fn_out = NotEvaluated

EvaluateBacktestSignal ==
    /\ ~fn_out.done
    /\ fn_out' = [done |-> TRUE,
                  value |-> [live |-> _check_buy_conditions(fn_in.indicators,
                                                            fn_in.candle.close),
                             backtest |-> _check_entry_conditions(fn_in.indicators,
                                                                  fn_in.candle,
                                                                  fn_in.params)]]
    /\ UNCHANGED <<running, paused, botVars, symbol_info, daily_stats, cfgVars, ws, dataVars, in_call, manager,
                   fn_in,
                   client_open, db_open, trading_paused, now, phase, cycle,
                   shutdown_todo, breaker_ok, last>>

SpecBacktestSignal == InitBacktestSignal /\ [][EvaluateBacktestSignal]_vars

\* avg_score > best_score
IsBetter_or_equal(avg_score, best_score) ==
    avg_score.num * best_score.den >= best_score.num * avg_score.den

IsBetter(avg_score, best_score) ==
    avg_score.num * best_score.den > best_score.num * avg_score.den

\* optimize_parameters, inner loop: the scores of the symbols whose backtest
\* returned a result, added up in the order of trading_pairs
RECURSIVE TotalScore(_, _)
TotalScore(scores, i) ==
    IF i = 0 THEN 0
    ELSE TotalScore(scores, i - 1)
         + (IF scores[trading_pairs[i]] = NoScore THEN 0 ELSE scores[trading_pairs[i]])

\* optimize_parameters, outer loop over combinations[1..i]: the best score
\* and parameters so far.  scores[i][symbol] is the optimisation score of
\* run_backtest(symbol, test_params) for the i-th combination.
RECURSIVE BestUpTo(_, _, _)
BestUpTo(combinations, scores, i) ==
    IF i = 0 THEN [best_score |-> MinusInfinity, best_params |-> << >>]
    ELSE LET before == BestUpTo(combinations, scores, i - 1)
             test_params == Update(_get_default_params, combinations[i])
             avg_score == Rat(TotalScore(scores[i], Len(trading_pairs)),
                              Len(trading_pairs))
         IN  IF IsBetter(avg_score, before.best_score)
             THEN [best_score |-> avg_score, best_params |-> test_params]
             ELSE before

\* BacktestValidator.optimize_parameters
optimize_parameters(param_grid, scores) ==
    LET combinations == _generate_param_combinations(param_grid)
    IN  BestUpTo(combinations, scores, Len(combinations)).best_params

\* a sweep over a grid of two keys with two values each, for every table of
\* scores (a failed backtest, a low and a high score) of its four candidates
OptimizeGrid ==
    << [key |-> "rsi_oversold", values |-> <<30, 35>>],
       [key |-> "take_profit_pct", values |-> <<20, 30>>] >>
OptimizeScores == {NoScore, 20, 50}

OptimizeInputs ==
    [param_grid : {OptimizeGrid},
     scores : [1..Len(_generate_param_combinations(OptimizeGrid)) ->
                  [Symbols -> OptimizeScores]]]

InitOptimize ==
    /\ InitBot
    /\ now = 0
    /\ fn_in \in OptimizeInputs
    /\ fn_out = NotEvaluated

Optimize ==
    /\ ~fn_out.done
    /\ fn_out' = [done |-> TRUE,
                  value |-> optimize_parameters(fn_in.param_grid, fn_in.scores)]
    /\ UNCHANGED <<running, paused, botVars, symbol_info, daily_stats, cfgVars, ws, dataVars, in_call, manager,
                   fn_in, client_open, db_open, trading_paused, now, phase, cycle,
                   shutdown_todo, breaker_ok, last>>

SpecOptimize == InitOptimize /\ [][Optimize]_vars

\* one optimisation sweep over a grid of two candidates and both pairs, one
\* run_backtest per step, while the clock advances by half candle periods;
\* fn_out.value lists the results of the runs made so far
SweepGrid == << [key |-> "rsi_oversold", values |-> <<30, 35>>] >>

SweepRuns(param_grid) == Len(_generate_param_combinations(param_grid)) * Len(trading_pairs)

InitSweep ==
    /\ InitBot
    /\ now = 0
    /\ fn_in = [param_grid |-> SweepGrid]
    /\ fn_out = [done |-> FALSE, value |-> << >>]

\* optimize_parameters, loop body: the next run_backtest(symbol, test_params)
SweepBacktest ==
    /\ ~fn_out.done
    /\ LET combinations == _generate_param_combinations(fn_in.param_grid)
           n == Len(fn_out.value)
           test_params == Update(_get_default_params,
                                 combinations[(n \div Len(trading_pairs)) + 1])
           symbol == trading_pairs[(n % Len(trading_pairs)) + 1]
       IN  \E klines \in {get_klines(now, UpdateLimit), << >>} :
             LET r == run_backtest(symbol, test_params, klines)
             IN  /\ candles_buffer' = r.candles_buffer
                 /\ last_update' = r.last_update
                 /\ fn_out' = [done |-> n + 1 = SweepRuns(fn_in.param_grid),
                               value |-> Append(fn_out.value, r.result)]
    /\ UNCHANGED <<running, paused, botVars, symbol_info, daily_stats, cfgVars, ws, in_call, manager,
                   fn_in,
                   client_open, db_open, trading_paused, now, phase, cycle,
                   shutdown_todo, breaker_ok, last>>

\* time passes while a sweep is under way
SweepClock ==
    /\ ~fn_out.done
    /\ now + (CandleSeconds \div 2) <= MaxDataTicks * (CandleSeconds \div 2)
    /\ now' = now + (CandleSeconds \div 2)
    /\ UNCHANGED <<running, paused, botVars, symbol_info, daily_stats, cfgVars, ws, dataVars, in_call, manager,
                   fnVars, client_open, db_open, trading_paused, phase, cycle,
                   shutdown_todo, breaker_ok, last>>

SpecSweep == InitSweep /\ [][SweepBacktest \/ SweepClock]_vars

\* _calculate_metrics on trade lists of up to three trades that lose 1 %,
\* break even or win 1.5 %, 2 % or 3 %, and on the list of five of the
\* documented example
MetricsPnls == {-10, 0, 15, 20, 30}
ExamplePnls == <<20, -10, 15, -10, 30>>
MetricsInputs ==
    {[i \in 1..Len(p) |-> [pnl_percent |-> p[i]]] :
        p \in {<< >>, ExamplePnls} \cup (UNION {[1..n -> MetricsPnls] : n \in 1..3})}

InitMetrics ==
    /\ InitBot
    /\ now = 0
    /\ fn_in \in MetricsInputs
    /\ fn_out = NotEvaluated

CalculateMetrics ==
    /\ ~fn_out.done
    /\ fn_out' = [done |-> TRUE, value |-> _calculate_metrics(fn_in)]
    /\ UNCHANGED <<running, paused, botVars, symbol_info, daily_stats, cfgVars, ws, dataVars, in_call, manager,
                   fn_in, client_open, db_open, trading_paused, now, phase, cycle,
                   shutdown_todo, breaker_ok, last>>

SpecMetrics == InitMetrics /\ [][CalculateMetrics]_vars

\* the risk manager's daily statistics under trade results that lose 5,
\* break even, win 3 or 10, or carry no pnl, and under resets; fn_in is the
\* trade result reported last
StatResults ==
    {[pnl |-> p * MoneyScale] : p \in {-5, 0, 3, 10}} \cup {[symbol |-> "BTCUSDT"]}

InitStats ==
    /\ InitBot
    /\ now = 0
    /\ fn_in = << >>
    /\ fn_out = NotEvaluated

UpdateDailyStats ==
    /\ daily_stats.trades < MaxStatTrades
    /\ \E trade_result \in StatResults :
         /\ daily_stats' = update_daily_stats(daily_stats, trade_result)
         /\ fn_in' = trade_result
    /\ UNCHANGED <<running, paused, botVars, symbol_info, cfgVars, ws, dataVars, in_call, manager,
                   fn_out,
                   client_open, db_open, trading_paused, now, phase, cycle,
                   shutdown_todo, breaker_ok, last>>

ResetDailyStats ==
    /\ daily_stats' = reset_daily_stats(daily_stats)
    /\ UNCHANGED <<running, paused, botVars, symbol_info, cfgVars, ws, dataVars, in_call, manager,
                   fnVars, client_open, db_open, trading_paused, now, phase, cycle,
                   shutdown_todo, breaker_ok, last>>

SpecStats == InitStats /\ [][UpdateDailyStats \/ ResetDailyStats]_vars

\* the exit rules on a long position entered at 200 at time 0 (stop 197,
\* target 205): live prices and backtest candles around both levels and
\* around +1 %, clock readings around 15 minutes and beyond one day
ExitEntryPrice == 200
ExitPosition ==
    [entry_price |-> ExitEntryPrice, quantity |-> 11,
     stop_loss |-> StopLevels(ExitEntryPrice).stop_loss,
     take_profit |-> StopLevels(ExitEntryPrice).take_profit,
     entry_time |-> 0, order_id |-> 1]

ExitInputs ==
    [position : {ExitPosition},
     current_price : {196, 197, 198, 201, 202, 204, 205, 206},
     candle : {c \in [low : {196, 197, 198, 201}, high : {201, 204, 205, 206}] :
                  c.low <= c.high}]

ExitClock ==
    {0, TickSeconds, QuickExitSeconds - 1, QuickExitSeconds, QuickExitSeconds + 1,
     DaySeconds - 1, DaySeconds, DaySeconds + TickSeconds, DaySeconds + QuickExitSeconds}

InitExit ==
    /\ InitBot
    /\ now \in ExitClock
    /\ fn_in \in ExitInputs
    /\ fn_out = NotEvaluated

EvaluateExit ==
    /\ ~fn_out.done
    /\ fn_out' = [done |-> TRUE,
                  value |-> [live |-> ExitReason(fn_in.position, fn_in.current_price),
                             backtest |-> BacktestExit(fn_in.position, fn_in.candle)]]
    /\ UNCHANGED <<running, paused, botVars, symbol_info, daily_stats, cfgVars, ws, dataVars, in_call, manager,
                   fn_in,
                   client_open, db_open, trading_paused, now, phase, cycle,
                   shutdown_todo, breaker_ok, last>>

SpecExit == InitExit /\ [][EvaluateExit]_vars

\* ------------------------------------------- _close_position, call by call
\* TradingBot._close_position from its await of market_sell on: what the
\* call, which read its position before the await, writes once the exchange
\* has answered ("failed": no order; "raised": update_trade on a closed
\* database, or 'del' of a position another call removed; "closed").
_close_position_resumed(call, accept, fill) ==
    LET position == call.position
        order == market_sell(call.symbol, position.quantity, accept, fill)
        unit == MoneyScale \div QtyScale
        actual_exit_price == order.price
        pnl == (actual_exit_price - position.entry_price) * position.quantity * unit
        fees == position.quantity * position.entry_price
                  * ((unit * total_cost_pct_x100) \div 10000)
        net_pnl == pnl - fees
        updated == update_trade(journal,
                       [order_id |-> position.order_id,
                        exit_price |-> actual_exit_price, pnl |-> net_pnl,
                        exit_reason |-> call.reason])
    IN  IF order = NoOrder
        THEN [result |-> "failed", positions |-> positions, daily_pnl |-> daily_pnl,
              daily_trades |-> daily_trades, journal |-> journal, orders |-> orders,
              last_order |-> last_order]
        ELSE IF ~db_open
        THEN [result |-> "raised", positions |-> positions,
              daily_pnl |-> daily_pnl + net_pnl, daily_trades |-> daily_trades + 1,
              journal |-> journal, orders |-> order.orderId, last_order |-> order]
        ELSE IF call.symbol \notin DOMAIN positions
        THEN [result |-> "raised", positions |-> positions,
              daily_pnl |-> daily_pnl + net_pnl, daily_trades |-> daily_trades + 1,
              journal |-> updated, orders |-> order.orderId, last_order |-> order]
        ELSE [result |-> "closed", positions |-> Remove(positions, call.symbol),
              daily_pnl |-> daily_pnl + net_pnl, daily_trades |-> daily_trades + 1,
              journal |-> updated, orders |-> order.orderId, last_order |-> order]

\* the bot in the middle of a cycle, two cooldown periods after it bought
\* 0.11 BTCUSDT at 200 with order 1; close_on_shutdown may be configured
InitTasks ==
    /\ running = TRUE
    /\ paused = FALSE
    /\ positions = [s \in {trading_pairs[1]} |-> ExitPosition]
    /\ last_trades = [s \in {trading_pairs[1]} |-> 0]
    /\ consecutive_losses = 0
    /\ daily_pnl = 0
    /\ daily_trades = 0
    /\ symbol_info \in {{trading_pairs[1]}, Symbols}
    /\ daily_stats = [total_loss |-> 0, total_profit |-> 0, trades |-> 0,
                      consecutive_losses |-> 0, max_drawdown |-> Rat(0, 1),
                      peak_balance |-> total_capital * MoneyScale]
    /\ max_spread_pct \in MaxSpreadPcts
    /\ bb_squeeze_threshold \in SqueezeThresholds
    /\ journal = save_trade(<< >>, [pair |-> trading_pairs[1], side |-> "BUY",
                                    entry_price |-> ExitPosition.entry_price,
                                    quantity |-> ExitPosition.quantity,
                                    status |-> "OPEN"])
    /\ orders = 1
    /\ last_order = [orderId |-> 1, symbol |-> trading_pairs[1], side |-> "BUY",
                     price |-> ExitPosition.entry_price,
                     executedQty |-> ExitPosition.quantity]
    /\ client_open = TRUE
    /\ db_open = TRUE
    /\ phase = "running"
    /\ cycle = 1
    /\ shutdown_todo = {}
    /\ trading_paused = FALSE
    /\ candles_buffer = [s \in Symbols |-> get_klines(0, DownloadLimit)]
    /\ last_update = [s \in Symbols |-> 0]
    /\ in_call = [t \in Tasks |-> Idle]
    /\ manager = [ManagerNew EXCEPT !.running = TRUE]
    /\ ws = _start_websocket(WsNew(ws_max_reconnect_attempts))
    /\ now = 2 * TickSeconds
    /\ breaker_ok = TRUE
    /\ last = Ev("cycle", "", "started", FALSE, 0)
    /\ fn_in = << >>
    /\ fn_out = NotEvaluated

\* the run task, _manage_position after the price arrived: an exit is due
\* and _close_position is entered, up to its await of the sell order
RunCloseCall ==
    /\ cycle > 0
    /\ in_call["run"] = Idle
    /\ _check_cooldown(trading_pairs[cycle])
    /\ HasPosition(trading_pairs[cycle])
    /\ \E current_price \in Prices :
         LET symbol == trading_pairs[cycle]
             reason == ExitReason(positions[symbol], current_price)
         IN  /\ reason # "hold"
             /\ in_call' = [in_call EXCEPT !["run"] =
                               [op |-> "_close_position", symbol |-> symbol,
                                reason |-> reason, position |-> positions[symbol]]]
             /\ last' = Ev(reason, symbol, "called", FALSE, 0)
    /\ UNCHANGED <<running, paused, botVars, symbol_info, daily_stats, cfgVars, ws, dataVars, manager,
                   fnVars, client_open, db_open, phase, cycle, shutdown_todo,
                   trading_paused, now, breaker_ok>>

\* the shutdown task: _close_position(symbol, 0, 'shutdown') is entered, up
\* to its await of the sell order; a symbol no longer in the map raises
ShutdownCloseCall ==
    /\ phase = "stopping"
    /\ in_call["shutdown"] = Idle
    /\ \E symbol \in shutdown_todo :
         IF symbol \notin DOMAIN positions
         THEN /\ phase' = "aborted"
              /\ shutdown_todo' = {}
              /\ last' = Ev("shutdown", symbol, "raised", FALSE, 0)
              /\ UNCHANGED in_call
         ELSE /\ in_call' = [in_call EXCEPT !["shutdown"] =
                               [op |-> "_close_position", symbol |-> symbol,
                                reason |-> "shutdown", position |-> positions[symbol]]]
              /\ last' = Ev("shutdown", symbol, "called", FALSE, 0)
              /\ UNCHANGED <<phase, shutdown_todo>>
    /\ UNCHANGED <<running, paused, botVars, symbol_info, daily_stats, cfgVars, ws, dataVars, manager,
                   fnVars, client_open, db_open, cycle, trading_paused, now, breaker_ok>>

\* the exchange answers the sell order of a task's call, and the call runs
\* to its end: counters, journal, removal from the map; then the caller's
\* next statements up to its next await
CloseReturn ==
    \E task \in Tasks :
      /\ in_call[task] # Idle
      /\ \E accept \in BOOLEAN, fill \in Prices :
           LET call == in_call[task]
               c == _close_position_resumed(call, accept, fill)
           IN  /\ positions' = c.positions
               /\ daily_pnl' = c.daily_pnl
               /\ daily_trades' = c.daily_trades
               /\ journal' = c.journal
               /\ orders' = c.orders
               /\ last_order' = c.last_order
               /\ last' = Ev(call.reason, call.symbol, c.result, FALSE, 0)
               /\ in_call' = [in_call EXCEPT ![task] = Idle]
               /\ IF task = "run"
                  THEN /\ consecutive_losses' = LossesAfter(call.reason, c.result)
                       /\ cycle' = NextCycle
                       /\ UNCHANGED <<phase, shutdown_todo>>
                  ELSE /\ phase' = IF c.result = "raised" THEN "aborted" ELSE phase
                       /\ shutdown_todo' = IF c.result = "raised" THEN {}
                                           ELSE shutdown_todo \ {call.symbol}
                       /\ UNCHANGED <<consecutive_losses, cycle>>
      /\ UNCHANGED <<running, paused, last_trades, symbol_info, daily_stats, cfgVars, ws,
                     dataVars, manager, fnVars, client_open, db_open, trading_paused, now,
                     breaker_ok>>

SpecTasks ==
    InitTasks /\ [][RunCloseCall \/ ShutdownCloseCall \/ CloseReturn
                      \/ ShutdownBegin \/ ShutdownFinish]_vars

\* calculate_position_size under the shipped risk settings and under settings
\* whose minimum lies below the order minimum or above the maximum, on
\* balances around the points where the clipping sets in
SizeConfigs ==
    {risk_config,
     [risk_config EXCEPT !.position_size_min = 5],
     [risk_config EXCEPT !.position_size_min = 5, !.min_order_size = 12],
     [risk_config EXCEPT !.position_size_min = 50]}

SizeInputs ==
    [config : SizeConfigs,
     available_balance : {b * MoneyScale : b \in {0, 20, 60, 66, 80, 81, 99, 100, 101,
                                                   150, 266, 267, 300}}]

InitSize ==
    /\ InitBot
    /\ now = 0
    /\ fn_in \in SizeInputs
    /\ fn_out = NotEvaluated

EvaluateSize ==
    /\ ~fn_out.done
    /\ fn_out' = [done |-> TRUE,
                  value |-> PositionSizeFor(fn_in.config, fn_in.available_balance)]
    /\ UNCHANGED <<running, paused, botVars, symbol_info, daily_stats, cfgVars, ws, dataVars, in_call, manager,
                   fn_in,
                   client_open, db_open, trading_paused, now, phase, cycle,
                   shutdown_todo, breaker_ok, last>>

SpecSize == InitSize /\ [][EvaluateSize]_vars

\* _adjust_quantity on cached constraints: lot steps 1, 2 and 5, minima that
\* are and are not multiples of the step, raw quantities num/den below the
\* minimum, between steps and above the maximum
QtyInfos ==
    {[min_qty |-> 1, max_qty |-> 20, step_size |-> 1],
     [min_qty |-> 2, max_qty |-> 20, step_size |-> 2],
     [min_qty |-> 3, max_qty |-> 20, step_size |-> 2],
     [min_qty |-> 5, max_qty |-> 18, step_size |-> 5]}

QtyInputs ==
    [info : QtyInfos, num : {1, 3, 5, 7, 9, 10, 12, 19, 37, 39, 40, 41, 50},
     den : {1, 2}]

InitQty ==
    /\ InitBot
    /\ now = 0
    /\ fn_in \in QtyInputs
    /\ fn_out = NotEvaluated

EvaluateQty ==
    /\ ~fn_out.done
    /\ fn_out' = [done |-> TRUE, value |-> AdjustToInfo(fn_in.info, fn_in.num, fn_in.den)]
    /\ UNCHANGED <<running, paused, botVars, symbol_info, daily_stats, cfgVars, ws, dataVars, in_call, manager,
                   fn_in,
                   client_open, db_open, trading_paused, now, phase, cycle,
                   shutdown_todo, breaker_ok, last>>

SpecQty == InitQty /\ [][EvaluateQty]_vars

\* the three order paths of the executor, called on a started bot (client
\* and database open) whose constraint cache holds no, one or both pairs:
\* amounts the sizing yields, quantities a position holds, quoted prices
\* (a market sell is filled at a quoted price; only the ticker read of
\* market_buy and the caller's limit price can be missing)
OrderInputs ==
    {i \in [path : {"market_buy", "market_sell", "limit_buy"},
            symbol : Symbols,
            usdt_amount : {15 * MoneyScale, 19200000, 22500000, 40 * MoneyScale},
            quantity : {8, 10, 11},
            price : Prices \cup {NoPrice},
            accept : BOOLEAN] :
        i.path = "market_sell" => i.price # NoPrice}

InitOrders ==
    /\ running = FALSE
    /\ paused = FALSE
    /\ positions = << >>
    /\ last_trades = << >>
    /\ consecutive_losses = 0
    /\ daily_pnl = 0
    /\ daily_trades = 0
    /\ symbol_info \in {{}, {trading_pairs[1]}, Symbols}
    /\ daily_stats = [total_loss |-> 0, total_profit |-> 0, trades |-> 0,
                      consecutive_losses |-> 0, max_drawdown |-> Rat(0, 1),
                      peak_balance |-> total_capital * MoneyScale]
    /\ max_spread_pct \in MaxSpreadPcts
    /\ bb_squeeze_threshold \in SqueezeThresholds
    /\ journal = << >>
    /\ orders = 0
    /\ last_order = NoOrder
    /\ client_open = TRUE
    /\ db_open = TRUE
    /\ phase = "initialized"
    /\ cycle = 0
    /\ shutdown_todo = {}
    /\ trading_paused = FALSE
    /\ candles_buffer = [s \in Symbols |-> get_klines(0, DownloadLimit)]
    /\ last_update = [s \in Symbols |-> 0]
    /\ in_call = [t \in Tasks |-> Idle]
    /\ manager = [ManagerNew EXCEPT !.running = TRUE]
    /\ ws = _start_websocket(WsNew(ws_max_reconnect_attempts))
    /\ now = 0
    /\ breaker_ok = TRUE
    /\ last = Ev("initialize", "", "ok", FALSE, 0)
    /\ fn_in \in OrderInputs
    /\ fn_out = NotEvaluated

SubmitOrder ==
    /\ ~fn_out.done
    /\ fn_out' =
          [done |-> TRUE,
           value |-> IF fn_in.path = "market_buy"
                     THEN market_buy(fn_in.symbol, fn_in.usdt_amount, fn_in.price,
                                     fn_in.accept, fn_in.price)
                     ELSE IF fn_in.path = "market_sell"
                     THEN market_sell(fn_in.symbol, fn_in.quantity, fn_in.accept,
                                      fn_in.price)
                     ELSE limit_buy(fn_in.symbol, fn_in.price, fn_in.usdt_amount,
                                    fn_in.accept)]
    /\ UNCHANGED <<running, paused, botVars, symbol_info, daily_stats, cfgVars, ws, dataVars, in_call, manager,
                   fn_in,
                   client_open, db_open, trading_paused, now, phase, cycle,
                   shutdown_todo, breaker_ok, last>>

SpecOrders == InitOrders /\ [][SubmitOrder]_vars

\* ------------------------------------------------------------------ claims
ExitReasons == {"stop_loss", "take_profit", "quick_exit"}

\* the rows of the journal that are CLOSED
ClosedRows(rows) == {i \in DOMAIN rows : rows[i].status = "CLOSED"}

\* C1: at most one open position per symbol.  No step replaces the position a
\* symbol holds (it stays as it is until it is removed), and a BUY order is
\* only ever submitted for a symbol that holds no position.
C1_OnePositionPerSymbol ==
    [][/\ \A s \in (DOMAIN positions) \cap (DOMAIN positions') :
             positions'[s] = positions[s]
       /\ (orders' # orders /\ last_order'.side = "BUY")
             => last_order'.symbol \notin DOMAIN positions]_vars

\* a cycle reached a pair that holds a position while the other pair holds one
\* too, and went to _manage_position instead of an entry
C1_Witness ==
    /\ last.op = "manage"
    /\ last.symbol \in DOMAIN positions
    /\ Cardinality(DOMAIN positions) = 2

\* C2: every successful close (sell filled, position removed) turns exactly
\* one journal row, the OPEN row of that symbol saved at entry, into a CLOSED
\* row carrying the exit price and the exit reason.
C2_CloseRecordsOneTrade ==
    [][\A s \in (DOMAIN positions) \ (DOMAIN positions') :
          \E i \in DOMAIN journal :
             /\ journal[i].pair = s
             /\ journal[i].status = "OPEN"
             /\ journal'[i].status = "CLOSED"
             /\ journal'[i].exit_price = last_order'.price
             /\ journal'[i].exit_reason = last'.op
             /\ ClosedRows(journal') = ClosedRows(journal) \cup {i}]_vars

\* C3: a failed close leaves the position and the journal as they were, and
\* the close is attempted again: the cycle that follows the failed close is
\* not stopped by the circuit breaker.
C3_FailedCloseRetried ==
    [][/\ (last'.op \in ExitReasons /\ last'.result = "failed")
             => (positions' = positions /\ journal' = journal)
       /\ (last.op \in ExitReasons /\ last.result = "failed" /\ last'.op = "cycle")
             => last'.result # "breaker"]_vars

\* C4: a cycle whose circuit-breaker check fails while positions are open
\* still goes on to the pairs, so that each open position is evaluated.
C4_BreakerStillManages ==
    [][(last'.op = "cycle" /\ last'.result = "breaker" /\ DOMAIN positions # {})
          => cycle' = 1]_vars

\* C5: check_circuit_breakers is false exactly when one of the three gates
\* is reached: false at consecutive_losses = max and true one below it, false
\* at daily_pnl = -daily_loss_limit and true just above it.
C5_BreakerBoundaries ==
    fn_out.done =>
       /\ fn_out.value = ~(\/ fn_in.consecutive_losses >= max_consecutive_losses
                           \/ fn_in.daily_pnl <= -(daily_loss_limit * MoneyScale)
                           \/ fn_in.max_spread >= max_spread_pct)
       /\ fn_in.consecutive_losses = max_consecutive_losses => ~fn_out.value
       /\ fn_in.daily_pnl = -(daily_loss_limit * MoneyScale) => ~fn_out.value
       /\ (/\ fn_in.consecutive_losses = max_consecutive_losses - 1
           /\ fn_in.daily_pnl = -(daily_loss_limit * MoneyScale) + 1
           /\ fn_in.max_spread = max_spread_pct - 1) => fn_out.value

\* the breaker evaluated exactly at the loss limit with the other gates open
C5_Witness ==
    /\ fn_out.done
    /\ ~fn_out.value
    /\ fn_in.consecutive_losses = max_consecutive_losses
    /\ fn_in.daily_pnl = 0
    /\ fn_in.max_spread = 0

\* C6: a ticker call that raises for a pair does not end the cycle: the
\* cycle still goes on to the pairs.
C6_FailureIsolated ==
    [][(last'.op = "cycle" /\ last'.result = "raised" /\ cycle = 0 /\ last' # last)
          => cycle' = 1]_vars

\* C7: a position is opened for a symbol only if the symbol held none, the
\* cycle's breaker check passed, the signal was ENTER and the size non-zero;
\* and no position is opened while a breaker counter is at its limit.
C7_EntryPreconditions ==
    [][\A s \in (DOMAIN positions') \ (DOMAIN positions) :
          /\ breaker_ok
          /\ last'.op = "buy" /\ last'.symbol = s
          /\ last'.signal
          /\ last'.size > 0
          /\ consecutive_losses < max_consecutive_losses
          /\ daily_pnl > -(daily_loss_limit * MoneyScale)]_vars

\* C8: every successful close calls update_daily_stats once: the risk
\* manager's trade count goes up by one with every position removed.
C8_CloseUpdatesRiskStats ==
    [][(DOMAIN positions' # DOMAIN positions /\ DOMAIN positions' \subseteq DOMAIN positions)
          => daily_stats'.trades = daily_stats.trades + 1]_vars

\* C9: when market_buy returns None the entry changes nothing: positions,
\* last-trade timestamps, counters, journal and orders are as before, so the
\* pair is analysed again when a cycle next reaches it.
C9_FailedBuyChangesNothing ==
    [][(last'.op = "buy" /\ last'.result = "failed")
          => /\ positions' = positions
             /\ last_trades' = last_trades
             /\ consecutive_losses' = consecutive_losses
             /\ daily_pnl' = daily_pnl
             /\ daily_trades' = daily_trades
             /\ journal' = journal
             /\ orders' = orders]_vars

\* a buy was attempted with an ENTER signal and a non-zero size, and failed
C9_Witness ==
    /\ last.op = "buy"
    /\ last.result = "failed"
    /\ last.signal
    /\ last.size > 0
    /\ last.symbol \notin DOMAIN positions

\* C10: the entry signal is ENTER exactly when all six conditions hold; the
\* documented snapshot enters under the documented parameters, and the same
\* snapshot with the price at 101, above the lower band, does not.
C10_EntryConjunctive ==
    fn_out.done =>
       LET i == fn_in.indicators
           price == fn_in.current_price
           example == /\ i.rsi = 28 /\ i.bb_lower = 100 /\ i.ema = 95
                      /\ i.volume_ratio = 8 /\ i.bb_width = 10
                      /\ bb_squeeze_threshold = 50
       IN  /\ fn_out.value = (/\ i.rsi < rsi_oversold
                              /\ price < i.bb_lower
                              /\ price > i.ema
                              /\ i.volume_ratio > min_volume_ratio
                              /\ i.bb_width > min_bb_width
                              /\ i.bb_width < bb_squeeze_threshold)
           /\ (example /\ price = 99) => fn_out.value
           /\ (example /\ price = 101) => ~fn_out.value

\* the documented snapshot with the price at 101 was evaluated: HOLD
C10_Witness ==
    /\ fn_out.done
    /\ ~fn_out.value
    /\ fn_in.current_price = 101
    /\ fn_in.indicators = [rsi |-> 28, bb_lower |-> 100, ema |-> 95,
                           volume_ratio |-> 8, bb_width |-> 10]
    /\ bb_squeeze_threshold = 50

\* the conditions of the three exits as the specification states them
StopHit(position, price) == price * PriceScale <= position.stop_loss
TargetHit(position, price) == price * PriceScale >= position.take_profit
QuickExitDue(position, price, elapsed) ==
    /\ (price - position.entry_price) * 100 >= QuickExitPct * position.entry_price
    /\ elapsed < QuickExitSeconds

\* C11: exits follow the priority stop_loss, take_profit, quick_exit: a hit
\* stop gives stop_loss even when the target is hit too (backtest candle), a
\* hit target without a hit stop gives take_profit even when the quick exit
\* is due, and when none of the three conditions holds the position is held.
C11_ExitPriority ==
    fn_out.done =>
       LET position == fn_in.position
           price == fn_in.current_price
           candle == fn_in.candle
           elapsed == now - position.entry_time
       IN  /\ StopHit(position, price) => fn_out.value.live = "stop_loss"
           /\ (~StopHit(position, price) /\ TargetHit(position, price))
                 => fn_out.value.live = "take_profit"
           /\ (/\ ~StopHit(position, price)
               /\ ~TargetHit(position, price)
               /\ ~QuickExitDue(position, price, elapsed))
                 => fn_out.value.live = "hold"
           /\ StopHit(position, candle.low) => fn_out.value.backtest = "stop_loss"
           /\ (~StopHit(position, candle.low) /\ TargetHit(position, candle.high))
                 => fn_out.value.backtest = "take_profit"
           /\ (~StopHit(position, candle.low) /\ ~TargetHit(position, candle.high))
                 => fn_out.value.backtest = "hold"

\* C12: a position is closed as quick_exit only when its unrealized pnl is at
\* least 1 % and less than 15 minutes have passed since the entry.
C12_QuickExitWindow ==
    (fn_out.done /\ fn_out.value.live = "quick_exit")
       => QuickExitDue(fn_in.position, fn_in.current_price,
                       now - fn_in.position.entry_time)

\* C13: stop_loss and take_profit are computed once, at entry, as
\* entry * (1 - stop%/100) and entry * (1 + target%/100) (the long side of
\* calculate_stops); no step changes the stop_loss, take_profit or entry_price
\* of a position that stays open; and stop_loss < entry_price < take_profit.
C13_StopsImmutable ==
    [][\A s \in DOMAIN positions' :
          LET new == positions'[s]
          IN  /\ new.stop_loss < new.entry_price * PriceScale
              /\ new.entry_price * PriceScale < new.take_profit
              /\ new.stop_loss * 1000 = new.entry_price * PriceScale * (1000 - stop_loss_pct_x10)
              /\ new.take_profit * 1000 = new.entry_price * PriceScale * (1000 + take_profit_pct_x10)
              /\ new.stop_loss = calculate_stops(new.entry_price, "BUY").stop_loss
              /\ new.take_profit = calculate_stops(new.entry_price, "BUY").take_profit
              /\ s \notin DOMAIN positions => new.entry_price = last_order'.price
              /\ s \in DOMAIN positions =>
                    /\ new.stop_loss = positions[s].stop_loss
                    /\ new.take_profit = positions[s].take_profit
                    /\ new.entry_price = positions[s].entry_price]_vars

\* a position was managed and held at a price between its levels, while the
\* clock has moved on since its entry
C13_Witness ==
    /\ last.op = "manage"
    /\ last.result = "hold"
    /\ last.symbol \in DOMAIN positions
    /\ now > positions[last.symbol].entry_time

\* C14: calculate_position_size is available_balance * pct / 100 clipped to
\* [position_size_min, position_size_max], or 0 when that clipped size is
\* below min_order_size; so every non-zero result lies in
\* [max(position_size_min, min_order_size), position_size_max] when
\* position_size_min <= position_size_max.
C14_PositionSizeClipped ==
    fn_out.done =>
       LET c == fn_in.config
           base == (fn_in.available_balance \div 100) * c.position_size_pct
           lo == c.position_size_min * MoneyScale
           hi == c.position_size_max * MoneyScale
           clipped == IF base < lo THEN (IF lo < hi THEN lo ELSE hi)
                      ELSE IF base > hi THEN hi ELSE base
       IN  /\ fn_out.value = IF clipped < c.min_order_size * MoneyScale THEN 0 ELSE clipped
           /\ (fn_out.value # 0 /\ lo <= hi)
                 => /\ fn_out.value >= lo
                    /\ fn_out.value >= c.min_order_size * MoneyScale
                    /\ fn_out.value <= hi

\* a size was rejected: the clipped size 9 lies below the order minimum 12
C14_Witness ==
    /\ fn_out.done
    /\ fn_out.value = 0
    /\ fn_in.config.min_order_size = 12
    /\ fn_in.available_balance = 60 * MoneyScale

\* the raw quantity num/den floored to a multiple of the step
Floored(info, num, den) == (num \div (den * info.step_size)) * info.step_size

\* C15, as stated: the adjusted quantity is a multiple of the step, is not
\* above the raw quantity, lies within [min_qty, max_qty], and is exactly
\* min_qty when min_qty exceeds the floored quantity.
C15_AdjustQuantity ==
    fn_out.done =>
       LET info == fn_in.info
       IN  /\ fn_out.value % info.step_size = 0
           /\ fn_out.value * fn_in.den <= fn_in.num
           /\ info.min_qty <= fn_out.value /\ fn_out.value <= info.max_qty
           /\ info.min_qty > Floored(info, fn_in.num, fn_in.den)
                 => fn_out.value = info.min_qty

\* C15, amended: the adjusted quantity lies within [min_qty, max_qty]; when
\* the floored quantity lies within that range the result is that floored
\* quantity, a multiple of the step not above the raw quantity; when min_qty
\* exceeds the floored quantity the result is exactly min_qty, and when the
\* floored quantity exceeds max_qty it is exactly max_qty.
C15_AdjustQuantityClamped ==
    fn_out.done =>
       LET info == fn_in.info
           floored == Floored(info, fn_in.num, fn_in.den)
       IN  /\ info.min_qty <= fn_out.value /\ fn_out.value <= info.max_qty
           /\ (info.min_qty <= floored /\ floored <= info.max_qty)
                 => /\ fn_out.value = floored
                    /\ fn_out.value % info.step_size = 0
                    /\ fn_out.value * fn_in.den <= fn_in.num
                    /\ (fn_out.value + info.step_size) * fn_in.den > fn_in.num
           /\ info.min_qty > floored => fn_out.value = info.min_qty
           /\ floored > info.max_qty => fn_out.value = info.max_qty

\* a raw quantity of 0.5 below the minimum 3 of a symbol with step 2: the
\* result is the minimum, above the raw quantity and no multiple of the step
C15_Witness ==
    /\ fn_out.done
    /\ fn_in.info = [min_qty |-> 3, max_qty |-> 20, step_size |-> 2]
    /\ fn_in.num = 1 /\ fn_in.den = 2
    /\ fn_out.value = 3

\* C16: no order whose notional quantity * price is below the symbol's
\* min_notional is submitted, on any of the executor's order paths.
C16_MinNotionalEveryPath ==
    (fn_out.done /\ fn_out.value # NoOrder)
       => fn_out.value.executedQty * fn_out.value.price * (MoneyScale \div QtyScale)
             >= SymbolConstraints[fn_in.symbol].min_notional * MoneyScale

\* C17: no order is ever submitted for a symbol that is absent from the
\* executor's constraint cache.
C17_UncachedSymbolBlocked ==
    [][orders' # orders => last_order'.symbol \in symbol_info]_vars

\* only BTCUSDT is cached: a buy for ETHUSDT with an ENTER signal failed
\* while BTCUSDT holds a position opened by the same executor
C17_Witness ==
    /\ symbol_info = {"BTCUSDT"}
    /\ last.op = "buy" /\ last.symbol = "ETHUSDT" /\ last.result = "failed"
    /\ last.signal
    /\ "BTCUSDT" \in DOMAIN positions

\* C18: the trading loop runs only with the constraints of every configured
\* pair fetched and cached.
C18_ConstraintsBeforeLoop ==
    running => symbol_info = Symbols

\* C20: with the parameter set the live bot is configured with, the
\* backtest's entry decision is ENTER exactly when the live decision is.
C20_BacktestMatchesLive ==
    (fn_out.done /\ fn_in.params.rsi_oversold = rsi_oversold)
       => (fn_out.value.live <=> fn_out.value.backtest)

\* C21: within one optimisation sweep every run for a given symbol replays
\* the same candle series.
C21_SweepSameCandles ==
    \A i, j \in 1..Len(fn_out.value) :
        (/\ fn_out.value[i] # NoResult
         /\ fn_out.value[j] # NoResult
         /\ fn_out.value[i].symbol = fn_out.value[j].symbol)
           => fn_out.value[i].candles = fn_out.value[j].candles

\* the fields of Metrics
MetricsFields ==
    {"total_trades", "win_rate", "profit_factor", "avg_profit", "avg_loss",
     "max_drawdown", "sharpe_ratio", "expectancy"}

\* C22: the metrics of an empty trade list have every Metrics field and each
\* is 0; the metrics of a non-empty list without a losing trade have
\* profit_factor 0.
C22_MetricsEdgeCases ==
    fn_out.done =>
       /\ fn_in = << >> =>
            /\ MetricsFields \subseteq DOMAIN fn_out.value
            /\ fn_out.value.total_trades = 0
            /\ \A f \in MetricsFields \ {"total_trades"} : fn_out.value[f].num = 0
       /\ (fn_in # << >> /\ \A i \in 1..Len(fn_in) : fn_in[i].pnl_percent >= 0)
            => fn_out.value.profit_factor.num = 0

\* a list of winning trades only was evaluated
C22_Witness ==
    /\ fn_out.done
    /\ Len(fn_in) = 2
    /\ \A i \in 1..Len(fn_in) : fn_in[i].pnl_percent > 0

RECURSIVE PnlOver(_, _)
PnlOver(trades, indexes) ==
    IF indexes = {} THEN 0
    ELSE LET i == CHOOSE i \in indexes : TRUE
         IN  trades[i].pnl_percent + PnlOver(trades, indexes \ {i})

Winners(trades) == {i \in 1..Len(trades) : trades[i].pnl_percent > 0}
Losers(trades) == {i \in 1..Len(trades) : trades[i].pnl_percent < 0}

\* C23: for a non-empty trade list the counts, win rate, profit factor and
\* expectancy are the stated functions of the pnl values, and the documented
\* example yields 5, 3, 2, 60.0, 3.25 and 0.9.
C23_MetricsFormulas ==
    (fn_out.done /\ fn_in # << >>) =>
       LET wins == Cardinality(Winners(fn_in))
           losses == Cardinality(Losers(fn_in))
           total == Len(fn_in)
           profit == PnlOver(fn_in, Winners(fn_in))
           loss == PnlOver(fn_in, Losers(fn_in))
           avgProfit == IF wins > 0 THEN Rat(profit, wins) ELSE Rat(0, 1)
           avgLoss == IF losses > 0 THEN Rat(loss, losses) ELSE Rat(0, 1)
           v == fn_out.value
       IN  /\ v.total_trades = total
           /\ v.winning_trades = wins
           /\ v.losing_trades = losses
           /\ RatEq(v.win_rate, Rat(wins * 100, total))
           /\ loss # 0 => RatEq(v.profit_factor, Rat(profit, -loss))
           /\ RatEq(v.expectancy,
                    RatAdd(RatMul(Rat(wins, total), avgProfit),
                           RatMul(Rat(total - wins, total), avgLoss)))
           /\ PnlColumn(fn_in) = ExamplePnls =>
                /\ v.total_trades = 5 /\ v.winning_trades = 3 /\ v.losing_trades = 2
                /\ RatEq(v.win_rate, Rat(60, 1))
                /\ RatEq(v.profit_factor, Rat(325, 100))
                /\ RatEq(v.expectancy, Rat(9, 1))

\* the documented example was evaluated
C23_Witness ==
    /\ fn_out.done
    /\ PnlColumn(fn_in) = ExamplePnls
    /\ fn_out.value.total_trades = 5

RECURSIVE ScoreOver(_, _)
ScoreOver(scores, symbols) ==
    IF symbols = {} THEN 0
    ELSE LET s == CHOOSE s \in symbols : TRUE
         IN  (IF scores[s] = NoScore THEN 0 ELSE scores[s])
             + ScoreOver(scores, symbols \ {s})

\* C24: the sweep covers the full cross-product of the grid, and returns the
\* first candidate in enumeration order among those with the highest score
\* summed (hence averaged) over the configured symbols.
C24_OptimizeFirstBest ==
    fn_out.done =>
       LET grid == fn_in.param_grid
           combinations == _generate_param_combinations(grid)
           total(i) == ScoreOver(fn_in.scores[i], Symbols)
           best == CHOOSE i \in 1..Len(combinations) :
                      /\ \A j \in 1..Len(combinations) : total(j) <= total(i)
                      /\ \A j \in 1..(i - 1) : total(j) < total(i)
       IN  /\ \A a \in 1..Len(grid[1].values), b \in 1..Len(grid[2].values) :
                \E i \in 1..Len(combinations) :
                   combinations[i] = (grid[1].key :> grid[1].values[a])
                                      @@ (grid[2].key :> grid[2].values[b])
           /\ Len(combinations) = Len(grid[1].values) * Len(grid[2].values)
           /\ \A k \in DOMAIN combinations[best] :
                 fn_out.value[k] = combinations[best][k]
           /\ \A k \in (DOMAIN _get_default_params) \ DOMAIN combinations[best] :
                 fn_out.value[k] = _get_default_params[k]

\* the highest score is shared by the second and the fourth candidate, and
\* the second is returned
C24_Witness ==
    /\ fn_out.done
    /\ \A s \in Symbols :
          /\ fn_in.scores[1][s] = 20 /\ fn_in.scores[3][s] = 20
          /\ fn_in.scores[2][s] = 50 /\ fn_in.scores[4][s] = 50
    /\ fn_out.value.rsi_oversold = 30
    /\ fn_out.value.take_profit_pct = 30

\* C25: a trade result with positive pnl resets the consecutive losses and
\* adds to the profit; any other adds one loss and |pnl| to the loss; the
\* trade count grows by one; the peak is at least the balance, and the
\* maximum drawdown is the larger of its old value and the drawdown now
\* (peak and drop in whole USDT, which the reported results are).
C25_UpdateDailyStats ==
    [][daily_stats'.trades = daily_stats.trades + 1 =>
        LET pnl == IF "pnl" \in DOMAIN fn_in' THEN fn_in'.pnl ELSE 0
            old == daily_stats
            new == daily_stats'
            balance == StatsStartBalance * MoneyScale + new.total_profit - new.total_loss
            before == old.max_drawdown
            after == new.max_drawdown
            peak == new.peak_balance \div MoneyScale
            drop == (new.peak_balance - balance) \div MoneyScale
        IN  /\ pnl > 0 => /\ new.consecutive_losses = 0
                          /\ new.total_profit = old.total_profit + pnl
                          /\ new.total_loss = old.total_loss
            /\ pnl <= 0 => /\ new.consecutive_losses = old.consecutive_losses + 1
                           /\ new.total_loss = old.total_loss - pnl
                           /\ new.total_profit = old.total_profit
            /\ new.peak_balance >= balance
            /\ new.peak_balance >= old.peak_balance
            /\ after.num * before.den >= before.num * after.den
            /\ after.num * peak >= drop * after.den
            /\ \/ after = before
               \/ after.num * peak = drop * after.den
    ]_vars

\* a break-even trade was reported after a win and a loss: two consecutive
\* losses, and the drawdown of the loss is kept
C25_Witness ==
    /\ daily_stats.trades = 3
    /\ fn_in = [pnl |-> 0]
    /\ daily_stats.consecutive_losses = 2
    /\ daily_stats.total_profit = 10 * MoneyScale
    /\ daily_stats.max_drawdown.num > 0

\* C26: when a cycle makes its circuit-breaker check on a later day than the
\* last trade, the consecutive losses, the daily PnL and the daily trade
\* count are zero.
C26_DailyReset ==
    (/\ now >= DaySeconds
     /\ last.op = "cycle"
     /\ last.result \in {"started", "breaker"}
     /\ DOMAIN positions = {}
     /\ \A s \in DOMAIN last_trades : last_trades[s] < DaySeconds)
       => (consecutive_losses = 0 /\ daily_pnl = 0 /\ daily_trades = 0)

\* C27: the exchange client and the database are open whenever a trading
\* cycle is in progress.
C27_NoTeardownMidCycle ==
    cycle # 0 => (client_open /\ db_open)

\* C28: no observable state has a position in the map whose closing sell was
\* already filled and counted.
C28_CloseAtomic ==
    (last_order # NoOrder /\ last_order.side = "SELL")
       => last_order.symbol \notin DOMAIN positions

\* a position was closed: the sell is the last order, the counters include
\* it and the position has left the map
C28_Witness ==
    /\ last_order # NoOrder
    /\ last_order.side = "SELL"
    /\ last.result = "closed"
    /\ daily_trades = 1
    /\ last.symbol \notin DOMAIN positions

\* C29: no two _close_position calls for the same symbol are in progress at
\* once.
C29_OneCallPerSymbol ==
    \A t, u \in Tasks :
        (t # u /\ in_call[t] # Idle /\ in_call[u] # Idle)
           => in_call[t].symbol # in_call[u].symbol

\* ------------------------------------------------- websocket reconnection
\* binance.ws_max_reconnect_attempts as shipped, one smaller, and one large
\* enough for the sleep to reach its cap
WsMaxAttempts == {3, ws_max_reconnect_attempts, 7}

InitWs ==
    /\ InitObjects
    /\ ws \in {WsNew(max_attempts) : max_attempts \in WsMaxAttempts}
    /\ now = 0
    /\ fn_in = << >>
    /\ fn_out = NotEvaluated

\* _ws_connect: one websockets.connect of a symbol's task returns or raises
WsConnect ==
    \E symbol \in Symbols, ok \in BOOLEAN :
      /\ ws.streams[symbol] = "connecting"
      /\ ws' = IF ok THEN WsConnected(ws, symbol) ELSE WsFailed(ws, symbol)
      /\ last' = Ev("_ws_connect", symbol, IF ok THEN "connected" ELSE "failed", FALSE, 0)
      /\ UNCHANGED <<running, paused, botVars, symbol_info, daily_stats, cfgVars, dataVars,
                     in_call, manager, fnVars, client_open, db_open, phase, cycle, shutdown_todo,
                     trading_paused, now, breaker_ok>>

\* _ws_connect, receive loop of a connected stream: the peer closes the
\* connection or the client is closed (the loop is left and the outer test
\* is made again), or anything else raises (handled as a failed attempt)
WsReceive ==
    \E symbol \in Symbols, outcome \in {"closed", "error"} :
      /\ ws.streams[symbol] = "connected"
      /\ ws' = IF outcome = "closed" THEN WsLoop(ws, symbol) ELSE WsFailed(ws, symbol)
      /\ last' = Ev("_ws_connect", symbol, IF outcome = "closed" THEN "closed" ELSE "failed",
                    FALSE, 0)
      /\ UNCHANGED <<running, paused, botVars, symbol_info, daily_stats, cfgVars, dataVars,
                     in_call, manager, fnVars, client_open, db_open, phase, cycle, shutdown_todo,
                     trading_paused, now, breaker_ok>>

\* _ws_connect: the sleep before the retry is over
WsRetry ==
    \E symbol \in Symbols :
      /\ ws.streams[symbol] = "waiting"
      /\ ws' = WsLoop(ws, symbol)
      /\ last' = Ev("_ws_connect", symbol, "retry", FALSE, 0)
      /\ UNCHANGED <<running, paused, botVars, symbol_info, daily_stats, cfgVars, dataVars,
                     in_call, manager, fnVars, client_open, db_open, phase, cycle, shutdown_todo,
                     trading_paused, now, breaker_ok>>

SpecWs ==
    InitWs /\ [][Initialize \/ ExecutorInitialize \/ Run \/ ShutdownBegin \/ ShutdownFinish
                 \/ WsConnect \/ WsReceive \/ WsRetry]_vars

\* C30: reconnection is a capped exponential backoff with a fallback.  The
\* client's attempt counter grows by one with every failed attempt and goes
\* back to 0 with every successful connect, so it counts the consecutive
\* failures; after the k-th one the failing stream sleeps min(2^k, 32)
\* seconds before its retry, unless k has reached ws_max_reconnect_attempts:
\* then that stream stops for good and the client is in REST fallback, which
\* no step ever leaves.
C30_ReconnectBackoff ==
    [][LET k == ws'.reconnect_attempts
           s == last'.symbol
           attempt == ws' # ws /\ last'.op = "_ws_connect"
       IN  /\ ws.use_rest_fallback => ws'.use_rest_fallback
           /\ \A x \in Symbols : ws.streams[x] = "stopped" => ws'.streams[x] = "stopped"
           /\ (attempt /\ last'.result = "failed") =>
                 /\ k = ws.reconnect_attempts + 1
                 /\ IF k >= ws.ws_max_reconnect_attempts
                    THEN ws'.streams[s] = "stopped" /\ ws'.use_rest_fallback
                    ELSE /\ ws'.streams[s] = "waiting"
                         /\ ws'.wait_time[s] = Min(2 ^ k, MaxBackoffSeconds)
                         /\ ws'.use_rest_fallback = ws.use_rest_fallback
           /\ (attempt /\ last'.result = "connected") => k = 0
           /\ (~attempt \/ last'.result \notin {"failed", "connected"}) =>
                 k = ws.reconnect_attempts
      ]_vars

\* a stream gave up after sleeps that reached the cap, the client is in REST
\* fallback and the other stream still holds its capped sleep
C30_Witness ==
    /\ ws.use_rest_fallback
    /\ last.op = "_ws_connect" /\ last.result = "failed"
    /\ ws.streams[last.symbol] = "stopped"
    /\ ws.reconnect_attempts = ws.ws_max_reconnect_attempts
    /\ \E x \in Symbols : ws.wait_time[x] = MaxBackoffSeconds /\ ws.streams[x] = "waiting"

\* ------------------------------------------------------- current price
\* get_current_price: a cached price counts as fresh below this age
PriceMaxAgeSeconds == 5

\* BinanceClient.get_current_price(symbol) at clock reading `clock`; ticker is
\* the REST answer (NoPrice: the request raised).  The age test reads the
\* .seconds field of the time difference.
get_current_price(price_cache, use_rest_fallback, symbol, clock, ticker) ==
    IF /\ symbol \in DOMAIN price_cache
       /\ Seconds(clock - price_cache[symbol].timestamp) < PriceMaxAgeSeconds
    THEN [price |-> price_cache[symbol].price, source |-> "cache",
          price_cache |-> price_cache]
    ELSE IF use_rest_fallback \/ symbol \notin DOMAIN price_cache
         THEN IF ticker = NoPrice
              THEN [price |-> NoPrice, source |-> "none", price_cache |-> price_cache]
              ELSE [price |-> ticker, source |-> "rest",
                    price_cache |-> Put(price_cache, symbol,
                                        [price |-> ticker, timestamp |-> clock])]
         ELSE [price |-> NoPrice, source |-> "none", price_cache |-> price_cache]

\* a cache that is empty or holds one price received at time 0; clock
\* readings around the age limit, and around it one day later
PriceClock ==
    {0, PriceMaxAgeSeconds - 1, PriceMaxAgeSeconds, PriceMaxAgeSeconds + 1,
     DaySeconds - 1, DaySeconds, DaySeconds + PriceMaxAgeSeconds - 1,
     DaySeconds + PriceMaxAgeSeconds}

PriceInputs ==
    [symbol : {trading_pairs[1]},
     price_cache : {<< >>} \cup
                   {Put(<< >>, trading_pairs[1], [price |-> p, timestamp |-> 0]) :
                      p \in {196, 200}},
     use_rest_fallback : BOOLEAN,
     ticker : {NoPrice, 200, 206}]

InitPrice ==
    /\ InitBot
    /\ now \in PriceClock
    /\ fn_in \in PriceInputs
    /\ fn_out = NotEvaluated

GetCurrentPrice ==
    /\ ~fn_out.done
    /\ fn_out' = [done |-> TRUE,
                  value |-> get_current_price(fn_in.price_cache, fn_in.use_rest_fallback,
                                              fn_in.symbol, now, fn_in.ticker)]
    /\ UNCHANGED <<running, paused, botVars, symbol_info, daily_stats, cfgVars, ws, dataVars, in_call, manager,
                   fn_in,
                   client_open, db_open, trading_paused, now, phase, cycle,
                   shutdown_todo, breaker_ok, last>>

SpecPrice == InitPrice /\ [][GetCurrentPrice]_vars

\* C31: get_current_price never returns a cached price that is 5 seconds
\* old or older: a price served from the cache was received less than 5
\* seconds before the call; otherwise the result is a fresh REST price or
\* unavailable.
C31_NoStaleCachedPrice ==
    fn_out.done =>
       /\ fn_out.value.source = "cache" =>
             now - fn_in.price_cache[fn_in.symbol].timestamp < PriceMaxAgeSeconds
       /\ fn_out.value.source = "rest" =>
             /\ fn_out.value.price = fn_in.ticker
             /\ fn_out.value.price_cache[fn_in.symbol].timestamp = now
       /\ fn_out.value.source = "none" => fn_out.value.price = NoPrice

\* ------------------------------------------------ indicator unavailability
\* calculate_all on a computation that succeeded or raised (with the values
\* it had reached), followed by the entry decision, under strategy
\* thresholds on either side of every default value
DefaultStrategies ==
    [rsi_oversold : {30, rsi_oversold, 60}, min_volume_ratio : {0, min_volume_ratio, 15},
     min_bb_width : {-1, 0, min_bb_width}, bb_squeeze_threshold : SqueezeThresholds]

DefaultInputs ==
    [computation : [raised : BOOLEAN, indicators : Snapshots],
     current_price : {1, 200, 206},
     strategy : DefaultStrategies]

InitDefault ==
    /\ InitBot
    /\ now = 0
    /\ fn_in \in DefaultInputs
    /\ fn_out = NotEvaluated

EvaluateDefault ==
    /\ ~fn_out.done
    /\ LET indicators == calculate_all(fn_in.computation)
       IN  fn_out' = [done |-> TRUE,
                      value |-> [indicators |-> indicators,
                                 decision |-> BuyDecision(fn_in.strategy, indicators,
                                                          fn_in.current_price)]]
    /\ UNCHANGED <<running, paused, botVars, symbol_info, daily_stats, cfgVars, ws, dataVars, in_call, manager,
                   fn_in,
                   client_open, db_open, trading_paused, now, phase, cycle,
                   shutdown_todo, breaker_ok, last>>

SpecDefault == InitDefault /\ [][EvaluateDefault]_vars

\* C32: when the indicator computation fails, calculate_all returns the
\* all-default snapshot (rsi 50, bands and ema 0, volume ratio 1.0) instead
\* of raising, and the entry decision on it is HOLD for every positive price
\* and every set of strategy thresholds: no signal and no failure.
C32_DefaultSnapshotHolds ==
    (fn_out.done /\ fn_in.computation.raised) =>
       /\ fn_out.value.indicators.rsi = 50
       /\ fn_out.value.indicators.bb_upper = 0
       /\ fn_out.value.indicators.bb_lower = 0
       /\ fn_out.value.indicators.bb_width = 0
       /\ fn_out.value.indicators.ema = 0
       /\ fn_out.value.indicators.volume_ratio = 10
       /\ fn_out.value.decision = "hold"

\* a failed computation under thresholds that every default value but the
\* band passes: rsi 50 < 60, volume ratio 1.0 > 0, width 0 > -0.1 and < 0.8
C32_Witness ==
    /\ fn_out.done
    /\ fn_in.computation.raised
    /\ fn_in.computation.indicators # _default_indicators
    /\ fn_in.strategy.rsi_oversold = 60
    /\ fn_in.strategy.min_volume_ratio = 0
    /\ fn_in.strategy.min_bb_width = -1
    /\ fn_out.value.decision = "hold"

\* C33: the consecutive-loss counter changes only when a position has been
\* closed: a _manage_position step whose sell order failed leaves
\* consecutive_losses as it was.
C33_FailedCloseKeepsLosses ==
    [][(last' # last /\ last'.op \in ExitReasons /\ last'.result = "failed")
          => consecutive_losses' = consecutive_losses]_vars

\* C34: every open position is evaluated for exit in every cycle that runs:
\* whenever the loop of a cycle passes a pair that holds a position, the
\* step is _manage_position (a hold, a missing price or an exit), also
\* inside the cooldown window that follows the position's entry.
C34_PositionManagedEveryCycle ==
    [][(cycle > 0 /\ cycle' # cycle /\ HasPosition(trading_pairs[cycle]))
          => (last' # last /\ last'.op \in {"manage"} \cup ExitReasons)]_vars

\* ------------------------------------------------------- position limit
\* _trading_cycle over the three shipped pairs, with risk.max_positions
\* below, at and above the shipped value.  Only the map of positions is
\* followed: a managed position is kept or closed, an analysed pair opens a
\* position or not (signal, spread, size and order answer taken together).
LimitPairs == <<"BTCUSDT", "ETHUSDT", "SOLUSDT">>
LimitMaxPositions == {1, max_positions, 3}

InitLimit ==
    /\ InitBot
    /\ now = 0
    /\ fn_in \in [max_positions : LimitMaxPositions]
    /\ fn_out = NotEvaluated

\* _trading_cycle passed the breaker check: the loop over the pairs begins
LimitCycle ==
    /\ cycle = 0
    /\ cycle' = 1
    /\ last' = Ev("cycle", "", "started", FALSE, 0)
    /\ UNCHANGED <<running, paused, botVars, envVars, phase, shutdown_todo, breaker_ok>>

\* _trading_cycle, loop body for one pair
LimitPair ==
    /\ cycle > 0
    /\ LET symbol == LimitPairs[cycle]
       IN  IF HasPosition(symbol)
           THEN \E closed \in BOOLEAN :
                  /\ positions' = IF closed THEN Remove(positions, symbol) ELSE positions
                  /\ last' = Ev("manage", symbol, IF closed THEN "closed" ELSE "hold",
                                FALSE, 0)
           ELSE IF ~BelowPositionLimit(fn_in.max_positions)
           THEN /\ last' = Ev("entry", symbol, "limit", FALSE, 0)
                /\ UNCHANGED positions
           ELSE \E opened \in BOOLEAN :
                  /\ positions' = IF opened THEN Put(positions, symbol, ExitPosition)
                                  ELSE positions
                  /\ last' = Ev("buy", symbol, IF opened THEN "opened" ELSE "failed",
                                opened, 0)
    /\ cycle' = IF cycle = Len(LimitPairs) THEN 0 ELSE cycle + 1
    /\ UNCHANGED <<running, paused, last_trades, consecutive_losses, daily_pnl,
                   daily_trades, journal, orders, last_order, envVars, phase,
                   shutdown_todo, breaker_ok>>

SpecLimit == InitLimit /\ [][LimitCycle \/ LimitPair]_vars

\* C35: the number of simultaneously open positions never exceeds
\* risk.max_positions, whatever the number of pairs that signal an entry in
\* one cycle.
C35_MaxPositions ==
    Cardinality(DOMAIN positions) <= fn_in.max_positions

\* the limit is full and a further pair of the same cycle was turned away
C35_Witness ==
    /\ Cardinality(DOMAIN positions) = fn_in.max_positions
    /\ fn_in.max_positions < Len(LimitPairs)
    /\ last.op = "entry" /\ last.result = "limit"
    /\ last.symbol \notin DOMAIN positions

\* ------------------------------------------------------ committed capital
\* _trading_cycle as far as capital goes: a managed position is kept or
\* closed; a free pair below the position limit is analysed, sized on the
\* available balance and, when the order is filled at the quoted price,
\* registered with the quantity the executor adjusted.  Risk settings: the
\* shipped ones, a minimum size that two positions exactly exhaust, and a
\* minimum size above what is left after one position.
CapitalConfigs ==
    {risk_config,
     [risk_config EXCEPT !.position_size_min = 75, !.position_size_max = 75],
     [risk_config EXCEPT !.position_size_min = 80, !.position_size_max = 100]}

CapitalPrice == ExitEntryPrice

InitCapital ==
    /\ InitBot
    /\ now = 0
    /\ fn_in \in [config : CapitalConfigs]
    /\ fn_out = NotEvaluated

CapitalCycle ==
    /\ cycle = 0
    /\ cycle' = 1
    /\ last' = Ev("cycle", "", "started", FALSE, 0)
    /\ UNCHANGED <<running, paused, botVars, envVars, phase, shutdown_todo, breaker_ok>>

CapitalPair ==
    /\ cycle > 0
    /\ LET symbol == trading_pairs[cycle]
           position_size == PositionSizeFor(fn_in.config, get_available_balance)
           quantity == AdjustToInfo(SymbolConstraints[symbol], position_size,
                                    CapitalPrice * (MoneyScale \div QtyScale))
       IN  IF HasPosition(symbol)
           THEN \E closed \in BOOLEAN :
                  /\ positions' = IF closed THEN Remove(positions, symbol) ELSE positions
                  /\ last' = Ev("manage", symbol, IF closed THEN "closed" ELSE "hold",
                                FALSE, 0)
           ELSE IF ~BelowPositionLimit(max_positions)
           THEN /\ last' = Ev("entry", symbol, "limit", FALSE, 0)
                /\ UNCHANGED positions
           ELSE IF position_size < fn_in.config.min_order_size * MoneyScale
           THEN /\ last' = Ev("entry", symbol, "no_size", TRUE, position_size)
                /\ UNCHANGED positions
           ELSE \E opened \in BOOLEAN :
                  /\ positions' =
                        IF opened
                        THEN Put(positions, symbol,
                                 [ExitPosition EXCEPT !.entry_price = CapitalPrice,
                                                      !.quantity = quantity])
                        ELSE positions
                  /\ last' = Ev("buy", symbol, IF opened THEN "opened" ELSE "failed",
                                TRUE, position_size)
    /\ cycle' = NextCycle
    /\ UNCHANGED <<running, paused, last_trades, consecutive_losses, daily_pnl,
                   daily_trades, journal, orders, last_order, envVars, phase,
                   shutdown_todo, breaker_ok>>

SpecCapital == InitCapital /\ [][CapitalCycle \/ CapitalPair]_vars

\* the size handed to the executor is at most the balance available at that
\* moment, and the balance available afterwards is not negative
WithinAllocation ==
    /\ (last' # last /\ last'.op = "buy") => last'.size <= get_available_balance
    /\ get_available_balance' >= 0

\* the minimum position size still fits after max_positions - 1 positions
\* of the maximum size
MinimumSizeFits ==
    fn_in.config.position_size_min * MoneyScale
       <= total_capital * trading_capital_pct * (MoneyScale \div 100)
            - (max_positions - 1) * fn_in.config.position_size_max * MoneyScale

NextUntouched ==
    \/ Initialize
    \/ ExecutorInitialize
    \/ Run
    \/ RunIteration
    \/ CooldownSkip
    \/ ManagePosition
    \/ AnalyzeEntry
    \/ ShutdownBegin
    \/ ShutdownClose
    \/ ShutdownFinish
    \/ MonitorLoop
    \/ AdvanceTime

SpecUntouched == Init /\ [][NextUntouched]_vars

\* C37: once a circuit breaker has set the bot to paused, the bot stays
\* paused until the user resumes trading from the dashboard: while no key is
\* pressed no step clears the pause, the monitor loop's included.
C37_PauseKeptUntilResumed ==
    [][paused => paused']_vars

\* ------------------------------------------------------- stop requests
\* Dashboard.handle_keyboard, key 's': should_stop = True and the dashboard's
\* own running flag False.  The handler polls while the dashboard runs.
KeyStop ==
    /\ phase = "running"
    /\ manager.dashboard_running
    /\ manager' = [manager EXCEPT !.should_stop = TRUE, !.dashboard_running = FALSE]
    /\ UNCHANGED <<running, paused, botVars, symbol_info, daily_stats, cfgVars, ws,
                   dataVars, in_call, fnVars, client_open, db_open, phase, cycle,
                   shutdown_todo, trading_paused, now, breaker_ok, last>>

\* BotManager._signal_handler (SIGTERM, SIGINT): BotManager.running = False,
\* nothing else.
SignalHandler ==
    /\ phase = "running"
    /\ manager.running
    /\ manager' = [manager EXCEPT !.running = FALSE]
    /\ UNCHANGED <<running, paused, botVars, symbol_info, daily_stats, cfgVars, ws,
                   dataVars, in_call, fnVars, client_open, db_open, phase, cycle,
                   shutdown_todo, trading_paused, now, breaker_ok, last>>

\* BotManager._monitor_loop returns: the while test finds running False, or
\* the iteration finds should_stop, sets running False and breaks.
MonitorReturn ==
    /\ phase \notin {"constructed", "initialized", "failed"}
    /\ "_monitor_loop" \notin manager.done
    /\ ~manager.running \/ manager.should_stop
    /\ manager' = [manager EXCEPT !.running = FALSE,
                                  !.done = @ \cup {"_monitor_loop"}]
    /\ UNCHANGED <<running, paused, botVars, symbol_info, daily_stats, cfgVars, ws,
                   dataVars, in_call, fnVars, client_open, db_open, phase, cycle,
                   shutdown_todo, trading_paused, now, breaker_ok, last>>

\* Dashboard.run returns: its while test finds the dashboard's running False.
DashboardReturn ==
    /\ phase \notin {"constructed", "initialized", "failed"}
    /\ "dashboard.run" \notin manager.done
    /\ ~manager.dashboard_running
    /\ manager' = [manager EXCEPT !.done = @ \cup {"dashboard.run"}]
    /\ UNCHANGED <<running, paused, botVars, symbol_info, daily_stats, cfgVars, ws,
                   dataVars, in_call, fnVars, client_open, db_open, phase, cycle,
                   shutdown_todo, trading_paused, now, breaker_ok, last>>

\* TradingBot.run returns: its while test finds TradingBot.running False.
RunReturn ==
    /\ phase \notin {"constructed", "initialized", "failed"}
    /\ "bot.run" \notin manager.done
    /\ ~running
    /\ cycle = 0
    /\ manager' = [manager EXCEPT !.done = @ \cup {"bot.run"}]
    /\ UNCHANGED <<running, paused, botVars, symbol_info, daily_stats, cfgVars, ws,
                   dataVars, in_call, fnVars, client_open, db_open, phase, cycle,
                   shutdown_todo, trading_paused, now, breaker_ok, last>>

\* asyncio.gather(*tasks) returns normally once every task has returned.
GatherReturned == manager.done = ManagerTasks

\* A stop was requested: the stop key set should_stop, or a signal set
\* BotManager.running to False while the bot runs.
StopRequested == manager.should_stop \/ (phase = "running" /\ ~manager.running)

\* The bot's own loop, one step of a cycle.  The clock stands still here, so
\* a pair that holds a position is inside its cooldown.
BotLoop == RunIteration \/ CooldownSkip \/ AnalyzeEntry

NextStop ==
    \/ Initialize
    \/ ExecutorInitialize
    \/ Run
    \/ BotLoop
    \/ KeyStop
    \/ SignalHandler
    \/ MonitorLoop
    \/ KeyPause
    \/ MonitorReturn
    \/ DashboardReturn
    \/ RunReturn
    \/ ShutdownBegin
    \/ ShutdownClose
    \/ ShutdownFinish

\* The event loop runs every task that is ready, so each task's next step is
\* taken; BotManager.shutdown runs when gather has returned.  ShutdownBegin
\* before that (gather ended by a task's exception) is possible, not promised.
SpecStop ==
    /\ Init
    /\ [][NextStop]_vars
    /\ WF_vars(Initialize)
    /\ WF_vars(Run)
    /\ WF_vars(BotLoop)
    /\ WF_vars(MonitorLoop)
    /\ WF_vars(MonitorReturn)
    /\ WF_vars(DashboardReturn)
    /\ WF_vars(RunReturn)
    /\ WF_vars(GatherReturned /\ ShutdownBegin)
    /\ WF_vars(ShutdownClose)
    /\ WF_vars(ShutdownFinish)

\* C38: a stop request (stop key or signal) is eventually followed by
\* TradingBot.shutdown: TradingBot.running becomes false and the loop ends.
C38_StopRequestStops == StopRequested ~> (~running /\ phase # "running")

\* ------------------------------------------------- the trade simulation
\* candles before this position only fill the first indicator window
WarmUpCandles == 50

\* a simulation that starts at the first candle
SimulatedRange_all(candles) == 1..Len(candles)

\* _simulate_trades, `for i in range(50, len(candles))`: the positions of the
\* candles it visits (candle i of the source is element i + 1 here)
SimulatedRange(candles) == (WarmUpCandles + 1)..Len(candles)

\* position = None
NoSimulatedPosition == [entry_time |-> -1]

\* _simulate_trades, entry branch: the position opened on the candle
SimulatedEntry(candle, params) ==
    [entry_time |-> candle.name,
     entry_price |-> candle.close,
     stop_loss |-> candle.close * (PriceScale - params.stop_loss_pct),
     take_profit |-> candle.close * (PriceScale + params.take_profit_pct)]

\* _simulate_trades, exit branch: the trade appended when the candle ends the
\* position (prices in 1/PriceScale, pnl_percent an exact fraction)
SimulatedTrade(position, candle, exit_reason) ==
    LET exit_price == IF exit_reason = "stop_loss" THEN position.stop_loss
                      ELSE position.take_profit
        entry == position.entry_price * PriceScale
    IN  [entry_time |-> position.entry_time,
         exit_time |-> candle.name,
         entry_price |-> position.entry_price,
         exit_price |-> exit_price,
         pnl_percent |-> Rat((exit_price - entry) * 10000 - total_cost_pct_x100 * entry,
                             entry * 100),
         exit_reason |-> exit_reason,
         duration_minutes |->
             Seconds((candle.name - position.entry_time) * CandleSeconds) \div 60]

\* _simulate_trades, the loop over the remaining positions `todo`, in order
RECURSIVE _simulate_loop(_, _, _, _, _)
_simulate_loop(todo, position, trades, candles, params) ==
    IF todo = {} THEN trades
    ELSE LET i == CHOOSE x \in todo : \A y \in todo : x <= y
             current_candle == candles[i]
             indicators == calculate_all(current_candle.window)
             rest == todo \ {i}
         IN  IF position = NoSimulatedPosition
             THEN IF _check_entry_conditions(indicators, current_candle, params)
                  THEN _simulate_loop(rest, SimulatedEntry(current_candle, params),
                                      trades, candles, params)
                  ELSE _simulate_loop(rest, position, trades, candles, params)
             ELSE LET exit_reason == BacktestExit(position, current_candle)
                      exit_price == IF exit_reason = "stop_loss" THEN position.stop_loss
                                    ELSE IF exit_reason = "take_profit"
                                    THEN position.take_profit
                                    ELSE 0
                  IN  IF exit_price # 0
                      THEN _simulate_loop(rest, NoSimulatedPosition,
                                Append(trades,
                                       SimulatedTrade(position, current_candle,
                                                      exit_reason)),
                                candles, params)
                      ELSE _simulate_loop(rest, position, trades, candles, params)

\* BacktestValidator._simulate_trades
_simulate_trades(candles, params) ==
    _simulate_loop(SimulatedRange(candles), NoSimulatedPosition, << >>, candles, params)

\* the window of a candle that gives the entry signal, and one whose
\* indicator computation fails
SignalWindow ==
    [raised |-> FALSE,
     indicators |-> [rsi |-> 28, bb_upper |-> 211, bb_lower |-> 201, bb_width |-> 10,
                     ema |-> 195, volume_ratio |-> 8]]
FailedWindow == [SignalWindow EXCEPT !.raised = TRUE]

\* candles the simulation can meet after an entry at ExitEntryPrice: the entry
\* signal on a flat candle, a flat candle without it, a candle down to the
\* stop, one up to the target, and the entry signal on a falling candle
SimulatedCandles ==
    { [close |-> ExitEntryPrice, low |-> ExitEntryPrice, high |-> ExitEntryPrice,
       window |-> SignalWindow],
      [close |-> ExitEntryPrice, low |-> 199, high |-> 201, window |-> FailedWindow],
      [close |-> 196, low |-> 196, high |-> ExitEntryPrice, window |-> FailedWindow],
      [close |-> 206, low |-> ExitEntryPrice, high |-> 206, window |-> FailedWindow],
      [close |-> 196, low |-> 190, high |-> 196, window |-> SignalWindow] }

\* candles of the history after the warm-up
MaxSimulatedCandles == 4

\* a history: WarmUpCandles candles that all give the entry signal, then the
\* tail; a candle's name is its index in the history, from 0
History(tail) ==
    [p \in 1..(WarmUpCandles + Len(tail)) |->
        LET c == IF p <= WarmUpCandles
                 THEN [close |-> ExitEntryPrice, low |-> ExitEntryPrice,
                       high |-> ExitEntryPrice, window |-> SignalWindow]
                 ELSE tail[p - WarmUpCandles]
        IN  [name |-> p - 1, close |-> c.close, low |-> c.low, high |-> c.high,
             window |-> c.window]]

\* every history with a tail of at most MaxSimulatedCandles candles, simulated
\* under the default parameters
InitSimulate ==
    /\ InitBot
    /\ now = 0
    /\ \E n \in 0..MaxSimulatedCandles :
         \E tail \in [1..n -> SimulatedCandles] :
            fn_in = [candles |-> History(tail), params |-> _get_default_params]
    /\ fn_out = NotEvaluated

SimulateTrades ==
    /\ ~fn_out.done
    /\ fn_out' = [done |-> TRUE, value |-> _simulate_trades(fn_in.candles, fn_in.params)]
    /\ UNCHANGED <<running, paused, botVars, symbol_info, daily_stats, cfgVars, ws,
                   dataVars, in_call, manager, fn_in, client_open, db_open,
                   trading_paused, now, phase, cycle, shutdown_todo, breaker_ok, last>>

SpecSimulate == InitSimulate /\ [][SimulateTrades]_vars

\* the candle named `name` ends a position with these levels
EndsPosition(candles, name, trade) ==
    /\ name + 1 \in DOMAIN candles
    /\ \/ candles[name + 1].low * PriceScale <= trade.entry_price
                                                 * (PriceScale - stop_loss_pct_x10)
       \/ candles[name + 1].high * PriceScale >= trade.entry_price
                                                  * (PriceScale + take_profit_pct_x10)

\* C39: in the trades _simulate_trades returns, every trade exits on a later
\* candle than it entered, enters on a later candle than the previous trade
\* exited, enters at candle index 50 or later, and has an exit candle inside
\* the history that reached its stop or target (an open position at the end
\* of the history yields no trade).
C39_OneSimulatedPosition ==
    fn_out.done =>
        LET trades == fn_out.value
        IN  \A k \in 1..Len(trades) :
              /\ trades[k].exit_time > trades[k].entry_time
              /\ trades[k].entry_time >= WarmUpCandles
              /\ k > 1 => trades[k].entry_time > trades[k - 1].exit_time
              /\ EndsPosition(fn_in.candles, trades[k].exit_time, trades[k])

\* two trades one after the other, the first stopped out, the second at target
C39_Witness ==
    /\ fn_out.done
    /\ Len(fn_out.value) = 2
    /\ fn_out.value[1].exit_reason = "stop_loss"
    /\ fn_out.value[2].exit_reason = "take_profit"

\* C40: a stream gives up only on its own ws_max_reconnect_attempts-th
\* consecutive failure, the attempts of the other streams not counting: a
\* stream that stopped while the client runs has slept the backoff of its
\* last-but-one failure, min(2^(max - 1), 32) seconds, before its last attempt.
C40_OwnAttemptsOnly ==
    \A s \in Symbols :
        (ws.ws_running /\ ws.streams[s] = "stopped") =>
            ws.wait_time[s] = backoff(ws.ws_max_reconnect_attempts - 1)

====
